---- MODULE Spec2Model ----
(***************************************************************************)
(* SquareQuber (src/src/app.js): the live game state (Board, inventory of  *)
(* Pieces, undo log, drag controller), the UI event handlers that edit it, *)
(* the exact-completion solver (solveRemainingAsync) run on a transformed  *)
(* working copy, the solution counter (countSolutionsAsync) and the        *)
(* symmetry helpers (makeTransform, chooseBestTransform, ...).             *)
(*                                                                         *)
(* JavaScript runs one handler at a time.  An async search gives the event *)
(* loop a turn only at `await sleep(0)`; awaiting a nested async call is a *)
(* microtask and lets no UI handler in.  The solver is therefore modelled  *)
(* as a stack machine whose steps are separate actions, and the UI         *)
(* handlers are enabled only while no search step is pending synchronously *)
(* (Quiescent).                                                            *)
(*                                                                         *)
(* The board of the program is 36 x 36 with tiles of size 1..8; the model  *)
(* is the same code on small boards and small inventories.                 *)
(***************************************************************************)
EXTENDS Integers, Sequences, FiniteSets, TLC

VARIABLES
  board,                \* state.board: [size, cells, filled]; cells[y][x]
  inventory,            \* state.inventory: sequence of Piece records, index = id
  undo,                 \* state.undo: sequence of steps
  solving,              \* state.solving
  cancelSolve,          \* state._cancelSolve: is a handle installed (non-null)?
  drag,                 \* DragController: [active, origX, origY, wasPlaced]
  preview,              \* state.preview: <<>> (null) or <<[piece, x, y, valid]>>
  inventoryDragActive,  \* the flag of the inventory pointerdown closure
  ops,                  \* number of editing UI events so far (bounded by MaxOps)
  cancelReq,            \* history: cancel was requested in the running search
  work,                 \* the working copy handed to solveRemainingAsync
  tf,                   \* the transform chosen by the Solve click: [rot, mirror]
  cells,                \* solveRemainingAsync: the private grid
  available,            \* solveRemainingAsync: pools, size -> sequence of piece ids
  sizeOrders,           \* solveRemainingAsync: [base, orders]
  placements,           \* solveRemainingAsync: active placements
  stats,                \* solveRemainingAsync: [nodes, depth]
  lastTick,             \* solveRemainingAsync: 0 until the first cadence report
  tickGap,              \* history: the time between the last two onTick calls of
                        \* the running search: "none", "short" (less than
                        \* SOLVER_TICK_MS) or "full"
  cancelled,            \* solveRemainingAsync: the cancel flag
  pc,                   \* position of the search
  stack,                \* the live invocations of backtrack, innermost last
  call,                 \* arguments of the backtrack call about to be entered
  ret,                  \* value returned by the backtrack call that just ended
  out,                  \* the result of the last run of solveRemainingAsync
  start,                \* history: the live state at the Solve click, and the
                        \* number of exact tilings of the working copy
  cs,                   \* countSolutionsAsync: its closure; cs.board and
                        \* cs.tilings record the board counted and its tilings
  fx                    \* inputs and result of the pure-function specifications

liveVars   == <<board, inventory, undo, solving, cancelSolve, drag, preview,
                inventoryDragActive, ops>>
solverVars == <<cancelReq, work, tf, cells, available, sizeOrders, placements,
                stats, lastTick, tickGap, cancelled, pc, stack, call, ret, out,
                start>>
vars       == <<liveVars, solverVars, cs, fx>>

----------------------------------------------------------------------------
(* Bounds of the model *)

\* init(): BOARD_SIZE (36 in the program), the board of the interactive game
BOARD_SIZE == 2
\* number of editing UI events (a whole drag counts from its pointerdown) that
\* may begin in one behaviour
MaxOps == 2
\* number of givens in a puzzle link loaded by the interactive game
MaxGivens == 1

\* createInventory(): the sizes of the pieces in id order (the program has
\* size s exactly s times for s = 1..8)
InvSizes == <<1, 1, 1, 2>>

\* the sizes the solver's pools and the counter's counts are kept for (1..8)
MAX_SIZE == 8

\* a maximum that keeps its first argument
Max_First(a, b) == a

Max(a, b) == IF a >= b THEN a ELSE b
Min(a, b) == IF a <= b THEN a ELSE b

----------------------------------------------------------------------------
(* Piece, Board *)

Piece(id, size) ==
  [id |-> id, size |-> size, x |-> 0, y |-> 0, placed |-> FALSE, fixed |-> FALSE]

EmptyCells(n) == [y \in 0..(n - 1) |-> [x \in 0..(n - 1) |-> 0]]

Board(n) == [size |-> n, cells |-> EmptyCells(n), filled |-> 0]

\* is (xx, yy) a cell of the s x s square whose top-left cell is (x, y)
InSquare(xx, yy, x, y, s) == xx >= x /\ xx < x + s /\ yy >= y /\ yy < y + s

\* the grid g with v written into every cell of the square that lies on it
WriteSquare(g, x, y, s, v) ==
  [yy \in DOMAIN g |->
     [xx \in DOMAIN g[yy] |-> IF InSquare(xx, yy, x, y, s) THEN v ELSE g[yy][xx]]]

clear(b) == [b EXCEPT !.cells = EmptyCells(b.size), !.filled = 0]

inBounds(b, x, y, s) == x >= 0 /\ y >= 0 /\ x + s <= b.size /\ y + s <= b.size

overlap(b, x, y, s) ==
  \E j \in 0..(s - 1), i \in 0..(s - 1) : b.cells[y + j][x + i] # 0

place(b, piece, x, y) ==
  [b EXCEPT !.cells = WriteSquare(b.cells, x, y, piece.size, piece.id),
            !.filled = b.filled + piece.size * piece.size]

remove(b, piece) ==
  [b EXCEPT !.cells = WriteSquare(b.cells, piece.x, piece.y, piece.size, 0),
            !.filled = b.filled - piece.size * piece.size]

createInventory(sizes) == [i \in 1..Len(sizes) |-> Piece(i, sizes[i])]

canPlace(b, piece, x, y) ==
  inBounds(b, x, y, piece.size) /\ ~overlap(b, x, y, piece.size)

\* Array.prototype.find over the inventory: the id of the first piece that
\* satisfies Test, 0 when there is none
FindFirst(ps, Test(_)) ==
  IF \E i \in 1..Len(ps) : Test(ps[i])
  THEN CHOOSE i \in 1..Len(ps) :
         Test(ps[i]) /\ \A k \in 1..(i - 1) : ~Test(ps[k])
  ELSE 0

FindUnplaced(ps, size) ==
  LET Test(p) == p.size = size /\ ~p.placed IN FindFirst(ps, Test)

\* a grab that does not skip the givens
FindGrabbable_AnyPlaced(ps, x, y) ==
  LET Test(p) == p.placed /\ InSquare(x, y, p.x, p.y, p.size)
  IN FindFirst(ps, Test)

\* the piece a canvas event at cell (x, y) grabs: placed, not fixed, under it
FindGrabbable(ps, x, y) ==
  LET Test(p) == p.placed /\ ~p.fixed /\ InSquare(x, y, p.x, p.y, p.size)
  IN FindFirst(ps, Test)

----------------------------------------------------------------------------
(* GameState: undo log *)

\* one recorded move of one piece
Single(pieceId, fromX, fromY, fromPlaced, toX, toY, toPlaced) ==
  [pieceId |-> pieceId, fromX |-> fromX, fromY |-> fromY, fromPlaced |-> fromPlaced,
   toX |-> toX, toY |-> toY, toPlaced |-> toPlaced]

\* a log entry: a single move (batch = FALSE, one sub-step) or a batch
Step(batch, steps) == [batch |-> batch, steps |-> steps]

pushStep(log, step) == Append(log, step)

\* undoStep's applySingle on st = [board, inventory]
applySingle(st, s) ==
  LET p  == st.inventory[s.pieceId]
      b1 == IF s.toPlaced THEN remove(st.board, p) ELSE st.board
      p1 == [p EXCEPT !.x = s.fromX, !.y = s.fromY, !.placed = s.fromPlaced]
      b2 == IF s.fromPlaced THEN place(b1, p1, p1.x, p1.y) ELSE b1
  IN [board |-> b2, inventory |-> [st.inventory EXCEPT ![s.pieceId] = p1]]

\* the sub-steps steps[1..i] applied from the last to the first
RECURSIVE applyBackwards(_, _, _)
applyBackwards(st, steps, i) ==
  IF i = 0 THEN st ELSE applyBackwards(applySingle(st, steps[i]), steps, i - 1)

\* undoStep on st = [board, inventory] with the popped step
undoStep(st, step) == applyBackwards(st, step.steps, Len(step.steps))

\* hardReset: pieces back to their constructed state
hardReset(ps) ==
  [i \in DOMAIN ps |->
     [ps[i] EXCEPT !.x = 0, !.y = 0, !.placed = FALSE, !.fixed = FALSE]]

----------------------------------------------------------------------------
(* Puzzle links: applyPuzzleFromQuery on the parsed items *)

Item(size, x, y) == [size |-> size, x |-> x, y |-> y]

CountSize(items, size) == Cardinality({i \in DOMAIN items : items[i].size = size})

\* "Validate counts": no size is asked for more often than the inventory has it
countsValid(ps, items) ==
  \A i \in DOMAIN items :
     CountSize(items, items[i].size) <= CountSize(ps, items[i].size)

\* a rejection that leaves the givens placed so far
rollback_Nothing(st) == st

\* the rollback of a puzzle that does not fit
rollback(st) ==
  [board     |-> clear(st.board),
   inventory |-> [i \in DOMAIN st.inventory |->
                    IF st.inventory[i].fixed
                    THEN [st.inventory[i] EXCEPT !.fixed = FALSE, !.placed = FALSE]
                    ELSE st.inventory[i]]]

\* "Place and lock", from item i on
RECURSIVE placeGivens(_, _, _)
placeGivens(st, items, i) ==
  IF i > Len(items) THEN st
  ELSE LET it == items[i] IN
       IF ~inBounds(st.board, it.x, it.y, it.size) THEN rollback(st)
       ELSE IF overlap(st.board, it.x, it.y, it.size) THEN rollback(st)
       ELSE LET id == FindUnplaced(st.inventory, it.size) IN
            IF id = 0 THEN st
            ELSE LET p == [st.inventory[id] EXCEPT
                             !.x = it.x, !.y = it.y, !.placed = TRUE, !.fixed = TRUE]
                 IN placeGivens([board     |-> place(st.board, p, it.x, it.y),
                                 inventory |-> [st.inventory EXCEPT ![id] = p]],
                                items, i + 1)

applyPuzzleFromQuery(st, items) ==
  IF ~countsValid(st.inventory, items) THEN st ELSE placeGivens(st, items, 1)

----------------------------------------------------------------------------
(* Puzzle strings: a string is a sequence of characters (one-character
   strings); positions are counted from 0 as in the program *)

Digits    == <<"0", "1", "2", "3", "4", "5", "6", "7", "8", "9">>
LowerCase == <<"a", "b", "c", "d", "e", "f", "g", "h", "i", "j", "k", "l", "m",
               "n", "o", "p", "q", "r", "s", "t", "u", "v", "w", "x", "y", "z">>
UpperCase == <<"A", "B", "C", "D", "E", "F", "G", "H", "I", "J", "K", "L", "M",
               "N", "O", "P", "Q", "R", "S", "T", "U", "V", "W", "X", "Y", "Z">>

\* U+212A KELVIN SIGN, a letter outside ASCII whose lower case is "k"
KelvinSign == "KELVIN"

\* an alphabet whose letters are upper case
BASE36_UpperCase == Digits \o UpperCase

\* BASE36
BASE36 == Digits \o LowerCase

\* Array/String indexOf on single characters: position from 0, -1 when absent
indexOf(seq, ch) ==
  IF \E i \in DOMAIN seq : seq[i] = ch
  THEN (CHOOSE i \in DOMAIN seq : seq[i] = ch) - 1
  ELSE 0 - 1

\* String.prototype.toLowerCase on one character
toLowerCase(ch) ==
  IF indexOf(UpperCase, ch) >= 0 THEN LowerCase[indexOf(UpperCase, ch) + 1]
  ELSE IF ch = KelvinSign THEN "k"
  ELSE ch

b36ToIntChar(ch) ==
  LET i == indexOf(BASE36, toLowerCase(ch)) IN IF i >= 0 THEN i ELSE 0 - 1

\* ch >= '1' && ch <= '8' on one character
isSizeChar(ch) == indexOf(Digits, ch) >= 1 /\ indexOf(Digits, ch) <= 8

\* String.prototype.trim: white space is cut from both ends
WhiteSpace == {" "}

RECURSIVE trimStart(_)
trimStart(str) ==
  IF str # <<>> /\ Head(str) \in WhiteSpace THEN trimStart(Tail(str)) ELSE str

RECURSIVE trimEnd(_)
trimEnd(str) ==
  IF str # <<>> /\ str[Len(str)] \in WhiteSpace
  THEN trimEnd(SubSeq(str, 1, Len(str) - 1))
  ELSE str

trim(str) == trimEnd(trimStart(str))

\* String(n) for an integer n >= 0: its decimal digits
RECURSIVE StringOf(_)
StringOf(n) ==
  IF n < 10 THEN <<Digits[n + 1]>> ELSE StringOf(n \div 10) \o <<Digits[(n % 10) + 1]>>

\* the loop of toPuzzleString from item i on, acc being `s` so far; BASE36[k]
\* is undefined outside 0..35 and such an item is skipped
RECURSIVE encodeFrom(_, _, _)
encodeFrom(items, i, acc) ==
  IF i > Len(items) THEN acc
  ELSE LET it == items[i] IN
       IF it.x \notin 0..(Len(BASE36) - 1) \/ it.y \notin 0..(Len(BASE36) - 1)
       THEN encodeFrom(items, i + 1, acc)
       ELSE encodeFrom(items, i + 1,
                       acc \o StringOf(it.size) \o <<BASE36[it.x + 1], BASE36[it.y + 1]>>)

toPuzzleString(items) == encodeFrom(items, 1, <<>>)

\* what parsePuzzleString returns or throws
Parsed(items) == [ok |-> TRUE, items |-> items, message |-> "", at |-> 0]
ParseError(message, at) == [ok |-> FALSE, items |-> <<>>, message |-> message, at |-> at]

\* the loop of parsePuzzleString from position i on, acc being `out` so far
RECURSIVE parseFrom(_, _, _)
parseFrom(str, i, acc) ==
  IF i >= Len(str) THEN Parsed(acc)
  ELSE LET sz  == str[i + 1]
           xch == str[i + 2]
           ych == str[i + 3]
           x   == b36ToIntChar(xch)
           y   == b36ToIntChar(ych)
       IN IF ~isSizeChar(sz) THEN ParseError("bad size", i)
          ELSE IF x < 0 \/ y < 0 THEN ParseError("bad coord", i + 1)
          ELSE parseFrom(str, i + 3, Append(acc, Item(indexOf(Digits, sz), x, y)))

parsePuzzleString(s) ==
  IF s = <<>> THEN Parsed(<<>>)
  ELSE LET str == trim(s) IN
       IF Len(str) % 3 # 0 THEN ParseError("length must be multiple of 3", 0)
       ELSE parseFrom(str, 0, <<>>)

----------------------------------------------------------------------------
(* Transform helpers *)

\* JavaScript's %: the remainder has the sign of the dividend
JsRem(a, b) == IF a >= 0 THEN a % b ELSE 0 - ((0 - a) % b)

\* makeTransform(n, rot, mirror): the closure's captured values
makeTransform(n, rot, mirror) ==
  [n |-> n, rot |-> JsRem(JsRem(rot, 4) + 4, 4), mirror |-> mirror]

Pt(x, y) == [x |-> x, y |-> y]

\* one pass of map's loop body (a quarter turn clockwise), k times
RECURSIVE rotateCW(_, _, _)
rotateCW(n, p, k) ==
  IF k = 0 THEN p ELSE rotateCW(n, Pt(n - 1 - p.y, p.x), k - 1)

\* rotateCCW turning clockwise instead
RECURSIVE rotateCCW_Clockwise(_, _, _)
rotateCCW_Clockwise(n, p, k) ==
  IF k = 0 THEN p ELSE rotateCCW_Clockwise(n, Pt(n - 1 - p.y, p.x), k - 1)

\* one pass of inv's loop body (a quarter turn counter-clockwise), k times
RECURSIVE rotateCCW(_, _, _)
rotateCCW(n, p, k) ==
  IF k = 0 THEN p ELSE rotateCCW(n, Pt(p.y, n - 1 - p.x), k - 1)

map(t, x, y) ==
  rotateCW(t.n, Pt(IF t.mirror THEN t.n - 1 - x ELSE x, y), t.rot)

inv(t, x, y) ==
  LET r == rotateCCW(t.n, Pt(x, y), t.rot)
  IN Pt(IF t.mirror THEN t.n - 1 - r.x ELSE r.x, r.y)

\* the cells of an n x n grid in the order of the loops `for y ... for x ...`
RasterIndex(n, x, y) == y * n + x

\* chooseBestTransform's inner loops: sum of t.x + t.y*n over the filled cells,
\* taken over the cells with raster index >= k
RECURSIVE keySum(_, _, _)
keySum(b, t, k) ==
  IF k >= b.size * b.size THEN 0
  ELSE LET x  == k % b.size
           y  == k \div b.size
           m  == map(t, x, y)
       IN (IF b.cells[y][x] # 0 THEN m.x + m.y * b.size ELSE 0) + keySum(b, t, k + 1)

\* the order in which chooseBestTransform tries the transforms
Enumeration ==
  << [r |-> 0, m |-> FALSE], [r |-> 0, m |-> TRUE],
     [r |-> 1, m |-> FALSE], [r |-> 1, m |-> TRUE],
     [r |-> 2, m |-> FALSE], [r |-> 2, m |-> TRUE],
     [r |-> 3, m |-> FALSE], [r |-> 3, m |-> TRUE] >>

\* Better taking a candidate that only ties with the best so far
Better_OnTie(sum, bestSum) == sum <= bestSum

\* is the sum of candidate i taken as the new best over bestSum
Better(sum, bestSum) == sum < bestSum

\* the loop of chooseBestTransform from candidate i on; best.none stands for
\* best = null with bestSum = Infinity
RECURSIVE bestFrom(_, _, _)
bestFrom(b, i, best) ==
  IF i > Len(Enumeration) THEN best
  ELSE LET t   == makeTransform(b.size, Enumeration[i].r, Enumeration[i].m)
           sum == keySum(b, t, 0)
       IN IF best.none \/ Better(sum, best.sum)
          THEN bestFrom(b, i + 1, [none |-> FALSE, t |-> t, sum |-> sum])
          ELSE bestFrom(b, i + 1, best)

chooseBestTransform(b) ==
  LET best == bestFrom(b, 1, [none |-> TRUE, t |-> makeTransform(b.size, 0, FALSE), sum |-> 0])
  IN [n |-> best.t.n, rot |-> best.t.rot, mirror |-> best.t.mirror, sum |-> best.sum]

Min4(a, b, c, d) == Min(Min(a, b), Min(c, d))

\* mapRectTopLeft returning the image of the top-left corner instead of the
\* minimum over the four corners
mapRectTopLeft_Corner(t, x, y, s) == map(t, x, y)

mapRectTopLeft(t, x, y, s) ==
  LET c1 == map(t, x, y)
      c2 == map(t, x + s - 1, y)
      c3 == map(t, x, y + s - 1)
      c4 == map(t, x + s - 1, y + s - 1)
  IN Pt(Min4(c1.x, c2.x, c3.x, c4.x), Min4(c1.y, c2.y, c3.y, c4.y))

\* invRectTopLeft returning the preimage of the top-left corner instead of the
\* minimum over the four corners
invRectTopLeft_Corner(t, x, y, s) == inv(t, x, y)

invRectTopLeft(t, x, y, s) ==
  LET c1 == inv(t, x, y)
      c2 == inv(t, x + s - 1, y)
      c3 == inv(t, x, y + s - 1)
      c4 == inv(t, x + s - 1, y + s - 1)
  IN Pt(Min4(c1.x, c2.x, c3.x, c4.x), Min4(c1.y, c2.y, c3.y, c4.y))

\* the number of non-zero cells of a grid
Filled(g) ==
  Cardinality({c \in (DOMAIN g) \X (DOMAIN g) : g[c[2]][c[1]] # 0})

\* buildTransformedState's clonedCells: every non-zero live cell (x, y) is
\* written to map(x, y), in raster order (a later write wins)
clonedCells(b, t) ==
  LET n == b.size
      Writers(tx, ty) ==
        {k \in 0..(n * n - 1) :
           /\ b.cells[k \div n][k % n] # 0
           /\ map(t, k % n, k \div n) = Pt(tx, ty)}
      Last(S) == CHOOSE k \in S : \A j \in S : j <= k
  IN [ty \in 0..(n - 1) |->
        [tx \in 0..(n - 1) |->
           IF Writers(tx, ty) = {} THEN 0
           ELSE LET k == Last(Writers(tx, ty)) IN b.cells[k \div n][k % n]]]

\* buildTransformedState(state, tf): the working copy
buildTransformedState(b, ps, t) ==
  [board       |-> [size |-> b.size, cells |-> clonedCells(b, t), filled |-> Filled(b.cells)],
   inventory   |-> [i \in DOMAIN ps |->
                      IF ps[i].placed
                      THEN LET m == mapRectTopLeft(t, ps[i].x, ps[i].y, ps[i].size)
                           IN [ps[i] EXCEPT !.x = m.x, !.y = m.y]
                      ELSE ps[i]],
   cancelSolve |-> FALSE]

\* applySolutionFromWork's loop over work.inventory from piece i on;
\* st = [board, inventory, steps] is the live state and the steps so far
RECURSIVE applyFrom(_, _, _, _)
applyFrom(st, w, t, i) ==
  IF i > Len(w.inventory) THEN st
  ELSE LET wp == w.inventory[i]
           up == st.inventory[wp.id]
       IN IF ~wp.placed \/ up.placed THEN applyFrom(st, w, t, i + 1)
          ELSE LET back == invRectTopLeft(t, wp.x, wp.y, wp.size)
                   p    == [up EXCEPT !.x = back.x, !.y = back.y, !.placed = TRUE]
               IN applyFrom(
                    [board     |-> place(st.board, p, p.x, p.y),
                     inventory |-> [st.inventory EXCEPT ![wp.id] = p],
                     steps     |-> Append(st.steps,
                                     Single(p.id, 0, 0, FALSE, p.x, p.y, TRUE))],
                    w, t, i + 1)

\* applySolutionFromWork(state, work, tf) on st = [board, inventory, undo]
applySolutionFromWork(st, w, t) ==
  LET r == applyFrom([board |-> st.board, inventory |-> st.inventory, steps |-> <<>>],
                     w, t, 1)
  IN [board     |-> r.board,
      inventory |-> r.inventory,
      undo      |-> IF Len(r.steps) > 0 THEN pushStep(st.undo, Step(TRUE, r.steps))
                    ELSE st.undo]

----------------------------------------------------------------------------
(* Exact tilings, stated without reference to any search *)

\* the squares that lie on an n x n board
Squares(n) ==
  {[s |-> s, x |-> x, y |-> y] : s \in 1..n, x \in 0..(n - 1), y \in 0..(n - 1)}
    \cap {q \in [s : 1..n, x : 0..(n - 1), y : 0..(n - 1)] :
            q.x + q.s <= n /\ q.y + q.s <= n}

SquareCells(q) == (q.x..(q.x + q.s - 1)) \X (q.y..(q.y + q.s - 1))

EmptyCellSet(g, n) == {c \in (0..(n - 1)) \X (0..(n - 1)) : g[c[2]][c[1]] = 0}

\* the sets of squares that cover every empty cell of g exactly once, cover no
\* other cell, and use each size at most as often as `counts` has it
ExactTilings(g, n, counts) ==
  LET E    == EmptyCellSet(g, n)
      Cand == {q \in Squares(n) :
                 q.s <= MAX_SIZE /\ counts[q.s] > 0 /\ SquareCells(q) \subseteq E}
  IN {S \in SUBSET Cand :
        /\ \A c \in E : Cardinality({q \in S : c \in SquareCells(q)}) = 1
        /\ \A s \in 1..MAX_SIZE : Cardinality({q \in S : q.s = s}) <= counts[s]}

----------------------------------------------------------------------------
(* Initial states *)

NoWork == [board |-> Board(0), inventory |-> <<>>, cancelSolve |-> FALSE]
NoOut  == [ok |-> FALSE, reason |-> "pending", count |-> 0]
NoCall == [depth |-> 0, startingRow |-> 0]
NoTf   == [n |-> 0, rot |-> 0, mirror |-> FALSE, sum |-> 0]
NoStart == [board |-> Board(0), inventory |-> <<>>, undo |-> <<>>, ops |-> 0,
            tilings |-> 0]
NoPools == [s \in 1..MAX_SIZE |-> <<>>]
NoOrders == [base |-> <<>>, orders |-> <<>>]
NoStats == [nodes |-> 0, depth |-> 0]

\* the locals of solveRemainingAsync while no search runs
SolverLocalsIdle ==
  /\ cells = <<>>
  /\ available = NoPools
  /\ sizeOrders = NoOrders
  /\ placements = <<>>
  /\ stats = NoStats
  /\ lastTick = 0
  /\ tickGap = "none"
  /\ cancelled = FALSE
  /\ stack = <<>>
  /\ call = NoCall
  /\ ret = FALSE

SolverIdle ==
  /\ SolverLocalsIdle
  /\ pc = "idle"
  /\ cancelReq = FALSE
  /\ work = NoWork
  /\ tf = NoTf
  /\ out = NoOut
  /\ start = NoStart

CountIdle ==
  [pc |-> "idle", cells |-> <<>>, counts |-> [s \in 1..MAX_SIZE |-> 0],
   solutions |-> 0, nodes |-> 0, limit |-> 0, lastTick |-> 0,
   stack |-> <<>>, startingRow |-> 0, stop |-> FALSE,
   result |-> [count |-> 0, nodes |-> 0], board |-> Board(0), tilings |-> 0]

NoFx ==
  [op |-> "none", n |-> 0, rot |-> 0, mirror |-> FALSE, x |-> 0, y |-> 0,
   b |-> Board(0), stage |-> "in", m |-> Pt(0, 0), back |-> Pt(0, 0), best |-> NoTf,
   s |-> 0, ps |-> <<>>, w |-> NoWork, canon |-> <<>>, canonImg |-> <<>>,
   str |-> <<>>, res |-> Parsed(<<>>)]

\* the puzzle links of at most k givens on an n x n board, sizes from a set
PuzzleInputs(n, sizes, k) ==
  LET Items == {Item(s, x, y) : s \in sizes, x \in 0..(n - 1), y \in 0..(n - 1)}
  IN UNION {[1..m -> Items] : m \in 0..k}

SizesOf(seq) == {seq[i] : i \in DOMAIN seq}

\* new GameState(), new DragController(), then applyPuzzleFromQuery(items)
GameInit(n, sizes, items) ==
  LET st == applyPuzzleFromQuery(
              [board |-> Board(n), inventory |-> createInventory(sizes)], items)
  IN /\ board = st.board
     /\ inventory = st.inventory
     /\ undo = <<>>
     /\ solving = FALSE
     /\ cancelSolve = FALSE
     /\ drag = [active |-> 0, origX |-> 0, origY |-> 0, wasPlaced |-> FALSE]
     /\ preview = <<>>
     /\ inventoryDragActive = FALSE
     /\ ops = 0

Init ==
  /\ \E items \in PuzzleInputs(BOARD_SIZE, SizesOf(InvSizes), MaxGivens) :
        GameInit(BOARD_SIZE, InvSizes, items)
  /\ SolverIdle
  /\ cs = CountIdle
  /\ fx = NoFx

----------------------------------------------------------------------------
(* UI event handlers on the live game *)

\* no search is in the middle of a synchronous run: the event loop can
\* dispatch a UI event or a timer
SolverAsleep == pc \in {"idle", "sleep0", "sleepTick"}
CountAsleep  == cs.pc \in {"idle", "sleep", "done"}
\* an event loop that dispatches events in the middle of a synchronous run
Quiescent_Always == TRUE

Quiescent    == SolverAsleep /\ CountAsleep

\* the pointer is free: no drag holds it (a pointer cannot click or press
\* elsewhere between the pointerdown and the pointerup of a drag; button
\* clicks can also come from the keyboard)
PointerFree == drag.active = 0

Coords == 0..(board.size - 1)
\* the cell a drag preview can be over: a cell of the board, or off the board
\* (every position off the board takes the same branches; one stands for all)
PreviewCells == (Coords \X Coords) \cup {<<0 - 1, 0 - 1>>}

\* DragController.start(piece)
startDrag(id) ==
  LET piece == inventory[id] IN
  /\ drag' = [active |-> id, origX |-> piece.x, origY |-> piece.y,
              wasPlaced |-> piece.placed]
  /\ board' = IF piece.placed THEN remove(board, piece) ELSE board
  /\ inventory' = [inventory EXCEPT ![id].placed = FALSE]

\* DragController.onMove: the preview under the pointer
movePreview(id, bx, by) ==
  <<[piece |-> id, x |-> bx, y |-> by, valid |-> canPlace(board, inventory[id], bx, by)]>>

\* canvas pointerdown at cell (x, y)
onCanvasDown(x, y) ==
  /\ Quiescent /\ PointerFree /\ ops < MaxOps
  /\ ~solving
  /\ FindGrabbable(inventory, x, y) # 0
  /\ startDrag(FindGrabbable(inventory, x, y))
  /\ ops' = ops + 1
  /\ UNCHANGED <<undo, solving, cancelSolve, preview, inventoryDragActive>>
  /\ UNCHANGED <<solverVars, cs, fx>>

\* inventory pointerdown on the thumb of a size, moved past the threshold:
\* startFromInventory, whose first onMove puts the preview over (bx, by)
onInventoryDrag(size, bx, by) ==
  /\ Quiescent /\ PointerFree /\ ops < MaxOps
  /\ ~solving
  /\ FindUnplaced(inventory, size) # 0
  /\ startDrag(FindUnplaced(inventory, size))
  /\ preview' = movePreview(FindUnplaced(inventory, size), bx, by)
  /\ inventoryDragActive' = TRUE
  /\ ops' = ops + 1
  /\ UNCHANGED <<undo, solving, cancelSolve>>
  /\ UNCHANGED <<solverVars, cs, fx>>

\* window pointermove during a drag
onMove(bx, by) ==
  /\ Quiescent
  /\ drag.active # 0
  /\ preview' = movePreview(drag.active, bx, by)
  /\ UNCHANGED <<board, inventory, undo, solving, cancelSolve, drag,
                 inventoryDragActive, ops>>
  /\ UNCHANGED <<solverVars, cs, fx>>

\* window pointerup / pointercancel during a drag
onUp ==
  /\ Quiescent
  /\ drag.active # 0
  /\ LET piece == inventory[drag.active]
         hasPr == preview # <<>>
     IN IF hasPr /\ preview[1].valid
        THEN LET p == [piece EXCEPT !.x = preview[1].x, !.y = preview[1].y,
                                    !.placed = TRUE]
             IN /\ inventory' = [inventory EXCEPT ![p.id] = p]
                /\ board' = place(board, p, p.x, p.y)
                /\ undo' = pushStep(undo, Step(FALSE,
                             <<Single(p.id, drag.origX, drag.origY, drag.wasPlaced,
                                      p.x, p.y, TRUE)>>))
        ELSE IF hasPr /\ ~inBounds(board, preview[1].x, preview[1].y, piece.size)
                      /\ drag.wasPlaced
        THEN /\ inventory' = [inventory EXCEPT ![piece.id].placed = FALSE]
             /\ board' = board
             /\ undo' = pushStep(undo, Step(FALSE,
                          <<Single(piece.id, drag.origX, drag.origY, TRUE,
                                   0, 0, FALSE)>>))
        ELSE LET p == [piece EXCEPT !.x = drag.origX, !.y = drag.origY,
                                    !.placed = drag.wasPlaced]
             IN /\ inventory' = [inventory EXCEPT ![p.id] = p]
                /\ board' = IF drag.wasPlaced THEN place(board, p, p.x, p.y) ELSE board
                /\ undo' = undo
  /\ preview' = <<>>
  /\ drag' = [drag EXCEPT !.active = 0]
  /\ inventoryDragActive' = FALSE
  /\ ops' = ops + 1
  /\ UNCHANGED <<solving, cancelSolve>>
  /\ UNCHANGED <<solverVars, cs, fx>>

\* contextmenu / auxclick at cell (x, y): removePieceAtEvent
onContextMenu(x, y) ==
  /\ Quiescent /\ PointerFree /\ ops < MaxOps
  /\ ~solving
  /\ FindGrabbable(inventory, x, y) # 0
  /\ LET piece == inventory[FindGrabbable(inventory, x, y)] IN
     /\ board' = remove(board, piece)
     /\ inventory' = [inventory EXCEPT ![piece.id].placed = FALSE]
     /\ undo' = pushStep(undo, Step(FALSE,
                  <<Single(piece.id, piece.x, piece.y, TRUE, 0, 0, FALSE)>>))
  /\ ops' = ops + 1
  /\ UNCHANGED <<solving, cancelSolve, drag, preview, inventoryDragActive>>
  /\ UNCHANGED <<solverVars, cs, fx>>

\* the positions autoPlaceRandomFit collects for a size
fitPositions(b, size) ==
  {pos \in (0..(b.size - size)) \X (0..(b.size - size)) :
     inBounds(b, pos[1], pos[2], size) /\ ~overlap(b, pos[1], pos[2], size)}

\* inventory click on the thumb of a size: autoPlaceRandomFit
onInventoryClick(size) ==
  /\ Quiescent /\ PointerFree /\ ops < MaxOps
  /\ ~(solving \/ inventoryDragActive)
  /\ FindUnplaced(inventory, size) # 0
  /\ \E pick \in fitPositions(board, size) :
       LET p == [inventory[FindUnplaced(inventory, size)] EXCEPT
                   !.x = pick[1], !.y = pick[2], !.placed = TRUE]
       IN /\ inventory' = [inventory EXCEPT ![p.id] = p]
          /\ board' = place(board, p, p.x, p.y)
          /\ undo' = pushStep(undo, Step(FALSE,
                       <<Single(p.id, 0, 0, FALSE, p.x, p.y, TRUE)>>))
  /\ ops' = ops + 1
  /\ UNCHANGED <<solving, cancelSolve, drag, preview, inventoryDragActive>>
  /\ UNCHANGED <<solverVars, cs, fx>>

\* the Clear handler's loop over the inventory from piece i on;
\* st = [board, inventory, steps]
RECURSIVE clearFrom(_, _)
clearFrom(st, i) ==
  IF i > Len(st.inventory) THEN st
  ELSE LET p == st.inventory[i] IN
       IF p.placed /\ ~p.fixed
       THEN clearFrom([board     |-> remove(st.board, p),
                       inventory |-> [st.inventory EXCEPT ![i].placed = FALSE],
                       steps     |-> Append(st.steps,
                                       Single(p.id, p.x, p.y, TRUE, 0, 0, FALSE))],
                      i + 1)
       ELSE clearFrom(st, i + 1)

\* Clear button
onClear ==
  /\ Quiescent /\ ops < MaxOps
  /\ ~solving
  /\ LET r == clearFrom([board |-> board, inventory |-> inventory, steps |-> <<>>], 1)
     IN /\ Len(r.steps) > 0
        /\ board' = r.board
        /\ inventory' = r.inventory
        /\ undo' = pushStep(undo, Step(TRUE, r.steps))
  /\ ops' = ops + 1
  /\ UNCHANGED <<solving, cancelSolve, drag, preview, inventoryDragActive>>
  /\ UNCHANGED <<solverVars, cs, fx>>

\* Undo button: state.undoStep()
onUndo ==
  /\ Quiescent /\ ops < MaxOps
  /\ Len(undo) > 0
  /\ LET r == undoStep([board |-> board, inventory |-> inventory], undo[Len(undo)])
     IN /\ board' = r.board
        /\ inventory' = r.inventory
  /\ undo' = SubSeq(undo, 1, Len(undo) - 1)
  /\ ops' = ops + 1
  /\ UNCHANGED <<solving, cancelSolve, drag, preview, inventoryDragActive>>
  /\ UNCHANGED <<solverVars, cs, fx>>

\* Unfix button: givens become normal pieces
onUnfix ==
  /\ Quiescent /\ ops < MaxOps
  /\ \E i \in DOMAIN inventory : inventory[i].fixed
  /\ inventory' = [i \in DOMAIN inventory |-> [inventory[i] EXCEPT !.fixed = FALSE]]
  /\ ops' = ops + 1
  /\ UNCHANGED <<board, undo, solving, cancelSolve, drag, preview, inventoryDragActive>>
  /\ UNCHANGED <<solverVars, cs, fx>>

\* New button, confirmed: state.hardReset()
onNew ==
  /\ Quiescent /\ ops < MaxOps
  /\ ~solving
  /\ board' = clear(board)
  /\ inventory' = hardReset(inventory)
  /\ preview' = <<>>
  /\ undo' = <<>>
  /\ ops' = ops + 1
  /\ UNCHANGED <<solving, cancelSolve, drag, inventoryDragActive>>
  /\ UNCHANGED <<solverVars, cs, fx>>

----------------------------------------------------------------------------
(* solveRemainingAsync: the exact-completion search *)

\* shuffleInPlace on the elements of S: any order can come out
shuffleInPlace(S) ==
  {f \in [1..Cardinality(S) -> S] :
     \A i, j \in 1..Cardinality(S) : i # j => f[i] # f[j]}

\* the pools: for each size the ids of the unplaced pieces, in inventory order
\* pools filled with every tile of a size, placed or not
pools_AllTiles(ps) ==
  [s \in 1..MAX_SIZE |->
     LET Test(p) == p.size = s
         sel     == SelectSeq(ps, Test)
     IN [i \in 1..Len(sel) |-> sel[i].id]]

pools(ps) ==
  [s \in 1..MAX_SIZE |->
     LET Test(p) == ~p.placed /\ p.size = s
         sel     == SelectSeq(ps, Test)
     IN [i \in 1..Len(sel) |-> sel[i].id]]

\* counts[s]: the number of unplaced pieces of size s
countsOf(ps) ==
  [s \in 1..MAX_SIZE |-> Cardinality({i \in DOMAIN ps : ~ps[i].placed /\ ps[i].size = s})]

NoSpot == [none |-> TRUE, x |-> 0, y |-> 0]

\* a scan that returns the last empty cell instead of the first
findNextEmpty_Last(g, n, startingRow) ==
  LET E == {k \in (startingRow * n)..(n * n - 1) : g[k \div n][k % n] = 0}
  IN IF E = {} THEN NoSpot
     ELSE LET k == CHOOSE m \in E : \A j \in E : m >= j
          IN [none |-> FALSE, x |-> k % n, y |-> k \div n]

\* the first empty cell of grid g (n x n) in row-major order from startingRow
findNextEmpty(g, n, startingRow) ==
  LET E == {k \in (startingRow * n)..(n * n - 1) : g[k \div n][k % n] = 0}
  IN IF E = {} THEN NoSpot
     ELSE LET k == CHOOSE m \in E : \A j \in E : m <= j
          IN [none |-> FALSE, x |-> k % n, y |-> k \div n]

\* a fit test that looks at the top-left cell only
canPlaceAt_CornerOnly(g, n, x, y, s) ==
  /\ ~(x + s > n \/ y + s > n)
  /\ g[y][x] = 0

canPlaceAt(g, n, x, y, s) ==
  /\ ~(x + s > n \/ y + s > n)
  /\ \A j \in 0..(s - 1), i \in 0..(s - 1) : g[y + j][x + i] = 0

\* an unPlace that leaves the written cells
unPlace_Nothing(g, x, y, s) == g

doPlace(g, x, y, s, id) == WriteSquare(g, x, y, s, id)
unPlace(g, x, y, s) == WriteSquare(g, x, y, s, 0)

\* sizeOrders[depth] || baseSizes
orderAt(depth) ==
  IF depth \in DOMAIN sizeOrders.orders THEN sizeOrders.orders[depth]
  ELSE sizeOrders.base

\* nextCandidate stopping at the first size whose pool is not empty, whether it
\* fits or not
nextCandidate_NoRetry(order, i, x, y) ==
  LET C == {j \in i..Len(order) : Len(available[order[j]]) > 0}
      j == IF C = {} THEN 0 ELSE CHOOSE m \in C : \A k \in C : m <= k
  IN IF j # 0 /\ canPlaceAt(cells, work.board.size, x, y, order[j]) THEN j ELSE 0

\* the first candidate of the order at or after index i that the loop does not
\* skip (its pool is not empty and it fits at (x, y)); 0 when there is none
nextCandidate(order, i, x, y) ==
  LET C == {j \in i..Len(order) :
              /\ Len(available[order[j]]) > 0
              /\ canPlaceAt(cells, work.board.size, x, y, order[j])}
  IN IF C = {} THEN 0 ELSE CHOOSE j \in C : \A k \in C : j <= k

\* solveRemainingAsync(work, ...) from its first line to its first await
solveBegin(t, w) ==
  LET av == pools(w.inventory)
      B  == {s \in 1..MAX_SIZE : Len(av[s]) > 0}
      maxPlacements == Cardinality({i \in DOMAIN w.inventory : ~w.inventory[i].placed})
  IN \E base \in shuffleInPlace(B) :
     \E orders \in [0..(Max(1, maxPlacements) - 1) -> shuffleInPlace(B)] :
       /\ tf' = t
       /\ work' = [w EXCEPT !.cancelSolve = TRUE]
       /\ cells' = w.board.cells
       /\ available' = av
       /\ sizeOrders' = [base |-> base, orders |-> orders]
       /\ placements' = <<>>
       /\ stats' = NoStats
       /\ lastTick' = 0
       /\ tickGap' = "none"
       /\ cancelled' = FALSE
       /\ stack' = <<>>
       /\ call' = NoCall
       /\ ret' = FALSE
       /\ out' = NoOut
       /\ pc' = "sleep0"

\* the Solve handler, started with transform t, up to its await; `start`
\* records the live state and the number of exact tilings the working copy has
solveStartWith(t) ==
  LET w == buildTransformedState(board, inventory, t) IN
  /\ solving' = TRUE
  /\ cancelSolve' = TRUE
  /\ cancelReq' = FALSE
  /\ start' = [board |-> board, inventory |-> inventory, undo |-> undo, ops |-> ops,
               tilings |-> Cardinality(ExactTilings(w.board.cells, w.board.size,
                                                    countsOf(w.inventory)))]
  /\ solveBegin(t, w)
  /\ UNCHANGED <<board, inventory, undo, drag, preview, inventoryDragActive, ops>>
  /\ UNCHANGED <<cs, fx>>

\* a Solve handler that starts a search whether or not one is running
onSolveStart_NoGuard ==
  /\ Quiescent
  /\ solveStartWith(chooseBestTransform(board))

\* Solve button while no search runs (the button is shown in Creator Mode,
\* which can be entered at any time and lasts until New)
onSolveStart ==
  /\ Quiescent
  /\ ~solving
  /\ solveStartWith(chooseBestTransform(board))

\* Solve button while a search runs: state._cancelSolve(), which calls
\* work._cancelSolve(), which sets the flag
onSolveCancel ==
  /\ Quiescent
  /\ solving
  /\ cancelReq' = TRUE
  /\ cancelled' = IF cancelSolve /\ work.cancelSolve THEN TRUE ELSE cancelled
  /\ UNCHANGED liveVars
  /\ UNCHANGED <<work, tf, cells, available, sizeOrders, placements, stats,
                 lastTick, tickGap, pc, stack, call, ret, out, start>>
  /\ UNCHANGED <<cs, fx>>

\* a wrapper that sets the flag whether or not the search still holds its handle
invokeHandle_NoNullCheck(c) == IF cancelSolve THEN TRUE ELSE c

\* the cancel flag after one call of state._cancelSolve when the flag was c:
\* the wrapper calls work._cancelSolve only while the search has it installed
invokeHandle(c) == IF cancelSolve /\ work.cancelSolve THEN TRUE ELSE c

\* the host calls the handle state._cancelSolve at any moment the event loop
\* is free, during a search or after it
callCancelHandle ==
  /\ Quiescent
  /\ cancelSolve
  /\ cancelled' = invokeHandle(cancelled)
  /\ cancelReq' = (cancelReq \/ pc # "idle")
  /\ UNCHANGED liveVars
  /\ UNCHANGED <<work, tf, cells, available, sizeOrders, placements, stats,
                 lastTick, tickGap, pc, stack, call, ret, out, start>>
  /\ UNCHANGED <<cs, fx>>

\* the timer of the initial `await sleep(0)` fires: backtrack(0, 0) is called
afterInitialSleep ==
  /\ pc = "sleep0" /\ CountAsleep
  /\ call' = [depth |-> 0, startingRow |-> 0]
  /\ pc' = "enter"
  /\ UNCHANGED liveVars
  /\ UNCHANGED <<cancelReq, work, tf, cells, available, sizeOrders, placements,
                 stats, lastTick, tickGap, cancelled, stack, ret, out, start>>
  /\ UNCHANGED <<cs, fx>>

\* a cadence timer that never fires: the search is not resumed after its yield
afterTickSleep_TimerLost == FALSE

\* the timer of a cadence `await sleep(0)` fires: the recursive call is made
afterTickSleep ==
  /\ pc = "sleepTick" /\ CountAsleep
  /\ pc' = "enter"
  /\ UNCHANGED liveVars
  /\ UNCHANGED <<cancelReq, work, tf, cells, available, sizeOrders, placements,
                 stats, lastTick, tickGap, cancelled, stack, call, ret, out, start>>
  /\ UNCHANGED <<cs, fx>>

\* cancelOnEntry without the check
cancelOnEntry_Never == FALSE

\* does backtrack return at once on entry because of the cancel flag
cancelOnEntry == cancelled

\* backtrack(depth, startingRow), from its first line to the size loop
btEnter ==
  /\ pc = "enter"
  /\ LET spot == findNextEmpty(cells, work.board.size, call.startingRow) IN
     IF cancelOnEntry
     THEN /\ ret' = FALSE /\ pc' = "ret"
          /\ UNCHANGED <<stack, stats>>
     ELSE IF spot.none
     THEN /\ ret' = TRUE /\ pc' = "ret"
          /\ UNCHANGED <<stack, stats>>
     ELSE /\ stats' = [stats EXCEPT !.depth = Max(stats.depth, call.depth)]
          /\ stack' = Append(stack, [depth |-> call.depth, x |-> spot.x, y |-> spot.y,
                                     i |-> 1, piece |-> 0])
          /\ pc' = "loop"
          /\ ret' = ret
  /\ UNCHANGED liveVars
  /\ UNCHANGED <<cancelReq, work, tf, cells, available, sizeOrders, placements,
                 lastTick, tickGap, cancelled, call, out, start>>
  /\ UNCHANGED <<cs, fx>>

\* does the size loop stop before its next candidate because of the cancel flag
cancelInLoop == cancelled

\* the size loop of the innermost backtrack, from the top of iteration i: skip
\* the sizes that are used up or do not fit, then place the next candidate and
\* report/yield if the cadence is due, or leave the loop
btLoop ==
  /\ pc = "loop"
  /\ LET f     == stack[Len(stack)]
         order == orderAt(f.depth)
         j     == nextCandidate(order, f.i, f.x, f.y)
     IN IF cancelInLoop \/ j = 0
        THEN /\ stack' = SubSeq(stack, 1, Len(stack) - 1)
             /\ ret' = FALSE
             /\ pc' = "ret"
             /\ UNCHANGED <<cells, available, placements, stats, lastTick, tickGap, call>>
        ELSE LET s     == order[j]
                 pool  == available[s]
                 piece == pool[Len(pool)]
             IN /\ available' = [available EXCEPT ![s] = SubSeq(pool, 1, Len(pool) - 1)]
                /\ cells' = doPlace(cells, f.x, f.y, s, piece)
                /\ placements' = Append(placements,
                                   [pieceId |-> piece, x |-> f.x, y |-> f.y, size |-> s])
                /\ stats' = [stats EXCEPT !.nodes = stats.nodes + 1]
                /\ stack' = [stack EXCEPT ![Len(stack)] =
                               [f EXCEPT !.i = j, !.piece = piece]]
                /\ call' = [depth |-> f.depth + 1, startingRow |-> f.y]
                /\ ret' = ret
                /\ \E due \in BOOLEAN :
                     IF lastTick = 0 \/ due
                     THEN /\ lastTick' = 1
                          /\ tickGap' = IF due THEN "full" ELSE "short"
                          /\ pc' = "sleepTick"
                     ELSE /\ lastTick' = lastTick
                          /\ tickGap' = tickGap
                          /\ pc' = "enter"
  /\ UNCHANGED liveVars
  /\ UNCHANGED <<cancelReq, work, tf, sizeOrders, cancelled, out, start>>
  /\ UNCHANGED <<cs, fx>>

\* the recursive call made by the innermost backtrack has returned `ret`
btReturn ==
  /\ pc = "ret"
  /\ Len(stack) > 0
  /\ LET f == stack[Len(stack)]
         s == orderAt(f.depth)[f.i]
     IN IF ret
        THEN /\ stack' = SubSeq(stack, 1, Len(stack) - 1)
             /\ pc' = "ret"
             /\ UNCHANGED <<cells, available, placements>>
        ELSE /\ placements' = SubSeq(placements, 1, Len(placements) - 1)
             /\ cells' = unPlace(cells, f.x, f.y, s)
             /\ available' = [available EXCEPT ![s] = Append(available[s], f.piece)]
             /\ IF cancelled
                THEN stack' = SubSeq(stack, 1, Len(stack) - 1) /\ pc' = "ret"
                ELSE /\ stack' = [stack EXCEPT ![Len(stack)] =
                                    [f EXCEPT !.i = f.i + 1, !.piece = 0]]
                     /\ pc' = "loop"
  /\ UNCHANGED liveVars
  /\ UNCHANGED <<cancelReq, work, tf, sizeOrders, stats, lastTick, tickGap, cancelled,
                 call, ret, out, start>>
  /\ UNCHANGED <<cs, fx>>

\* the loop over the placements after a solved search, from placement i on;
\* st = [inventory, count]
RECURSIVE finalizeFrom(_, _, _)
finalizeFrom(st, pls, i) ==
  IF i > Len(pls) THEN st
  ELSE LET pl == pls[i]
           p  == st.inventory[pl.pieceId]
       IN IF p.placed THEN finalizeFrom(st, pls, i + 1)
          ELSE finalizeFrom(
                 [inventory |-> [st.inventory EXCEPT ![pl.pieceId] =
                                   [p EXCEPT !.x = pl.x, !.y = pl.y, !.placed = TRUE]],
                  count     |-> st.count + 1],
                 pls, i + 1)

\* resultOf without the branch for the cancel flag
resultOf_IgnoreCancel(isCancelled, solved, count) ==
  IF ~solved THEN [ok |-> FALSE, reason |-> "", count |-> 0]
  ELSE [ok |-> TRUE, reason |-> "", count |-> count]

\* resultOf reporting a solved search that placed nothing as a failure
resultOf_NothingPlacedFails(isCancelled, solved, count) ==
  IF isCancelled THEN [ok |-> FALSE, reason |-> "cancel", count |-> 0]
  ELSE IF ~solved \/ count = 0 THEN [ok |-> FALSE, reason |-> "", count |-> 0]
  ELSE [ok |-> TRUE, reason |-> "", count |-> count]

\* the result of solveRemainingAsync once backtrack(0, 0) has returned `solved`
resultOf(isCancelled, solved, count) ==
  IF isCancelled THEN [ok |-> FALSE, reason |-> "cancel", count |-> 0]
  ELSE IF ~solved THEN [ok |-> FALSE, reason |-> "", count |-> 0]
  ELSE [ok |-> TRUE, reason |-> "", count |-> count]

\* backtrack(0, 0) has returned: solveRemainingAsync from `finally` to its return
solveReturn ==
  /\ pc = "ret"
  /\ Len(stack) = 0
  /\ LET fin == finalizeFrom([inventory |-> work.inventory, count |-> 0], placements, 1)
         res == resultOf(cancelled, ret, fin.count)
     IN /\ out' = res
        /\ work' = [work EXCEPT !.cancelSolve = FALSE,
                                !.inventory = IF res.ok THEN fin.inventory ELSE @]
  /\ pc' = "returned"
  /\ UNCHANGED liveVars
  /\ UNCHANGED <<cancelReq, tf, cells, available, sizeOrders, placements, stats,
                 lastTick, tickGap, cancelled, stack, call, ret, start>>
  /\ UNCHANGED <<cs, fx>>

\* the Solve handler after its await: apply a successful result, then `finally`
solveApply ==
  /\ pc = "returned"
  /\ LET r == IF out.ok
              THEN applySolutionFromWork(
                     [board |-> board, inventory |-> inventory, undo |-> undo], work, tf)
              ELSE [board |-> board, inventory |-> inventory, undo |-> undo]
     IN /\ board' = r.board
        /\ inventory' = r.inventory
        /\ undo' = r.undo
  /\ solving' = FALSE
  /\ pc' = "idle"
  /\ cells' = <<>>
  /\ available' = NoPools
  /\ sizeOrders' = NoOrders
  /\ placements' = <<>>
  /\ stats' = NoStats
  /\ lastTick' = 0
  /\ tickGap' = "none"
  /\ cancelled' = FALSE
  /\ stack' = <<>>
  /\ call' = NoCall
  /\ ret' = FALSE
  /\ UNCHANGED <<cancelSolve, drag, preview, inventoryDragActive, ops>>
  /\ UNCHANGED <<cancelReq, work, tf, out, start>>
  /\ UNCHANGED <<cs, fx>>

----------------------------------------------------------------------------
(* The interactive game *)

UiEvent ==
  \/ \E x \in Coords, y \in Coords : onCanvasDown(x, y)
  \/ \E s \in SizesOf(InvSizes), c \in PreviewCells : onInventoryDrag(s, c[1], c[2])
  \/ \E c \in PreviewCells : onMove(c[1], c[2])
  \/ onUp
  \/ \E x \in Coords, y \in Coords : onContextMenu(x, y)
  \/ \E s \in SizesOf(InvSizes) : onInventoryClick(s)
  \/ onClear
  \/ onUndo
  \/ onUnfix
  \/ onNew

SolveStep ==
  \/ afterInitialSleep
  \/ afterTickSleep
  \/ btEnter
  \/ btLoop
  \/ btReturn
  \/ solveReturn
  \/ solveApply

Next ==
  \/ UiEvent
  \/ onSolveStart
  \/ onSolveCancel
  \/ SolveStep

Spec == Init /\ [][Next]_vars

----------------------------------------------------------------------------
(* countSolutionsAsync: the solution counter; cs holds its closure *)

\* the largest size <= s that the loop `for (s = 8; s >= 1; s--)` does not
\* skip at (x, y); 0 when there is none
nextSize(c, n, s, x, y) ==
  LET C == {k \in 1..s : c.counts[k] # 0 /\ canPlaceAt(c.cells, n, x, y, k)}
  IN IF C = {} THEN 0 ELSE CHOOSE k \in C : \A j \in C : j <= k

\* atLimit cutting one solution too late
atLimit_Late(solutions, limit) == solutions > limit

\* is the count at the limit (the early cut of backtrack)
atLimit(solutions, limit) == solutions >= limit

\* countSolutionsAsync(state, limit, onTick) up to the call backtrack(0)
countBegin(limit) ==
  cs' = [pc |-> "enter", cells |-> board.cells, counts |-> countsOf(inventory),
         solutions |-> 0, nodes |-> 0, limit |-> limit, lastTick |-> 0,
         stack |-> <<>>, startingRow |-> 0, stop |-> FALSE,
         result |-> [count |-> 0, nodes |-> 0],
         board |-> board,
         tilings |-> Cardinality(ExactTilings(board.cells, board.size,
                                              countsOf(inventory)))]

\* backtrack(startingRow) of the counter, from its first line to the size loop
countEnter ==
  /\ cs.pc = "enter"
  /\ LET spot == findNextEmpty(cs.cells, cs.board.size, cs.startingRow) IN
     IF atLimit(cs.solutions, cs.limit)
     THEN cs' = [cs EXCEPT !.stop = TRUE, !.pc = "ret"]
     ELSE IF spot.none
     THEN cs' = [cs EXCEPT !.solutions = cs.solutions + 1,
                           !.stop = atLimit(cs.solutions + 1, cs.limit),
                           !.pc = "ret"]
     ELSE cs' = [cs EXCEPT !.stack = Append(cs.stack,
                                       [x |-> spot.x, y |-> spot.y, s |-> MAX_SIZE]),
                           !.pc = "loop"]
  /\ UNCHANGED <<liveVars, solverVars, fx>>

\* the size loop of the counter's innermost backtrack: skip, then place the
\* next size and report/yield if the cadence is due, or leave the loop
countLoop ==
  /\ cs.pc = "loop"
  /\ LET f == cs.stack[Len(cs.stack)]
         s == nextSize(cs, cs.board.size, f.s, f.x, f.y)
     IN IF s = 0
        THEN cs' = [cs EXCEPT !.stack = SubSeq(cs.stack, 1, Len(cs.stack) - 1),
                              !.stop = FALSE, !.pc = "ret"]
        ELSE \E due \in BOOLEAN :
               cs' = [cs EXCEPT
                        !.counts[s] = cs.counts[s] - 1,
                        !.cells = doPlace(cs.cells, f.x, f.y, s, 0 - s),
                        !.nodes = cs.nodes + 1,
                        !.stack[Len(cs.stack)] = [f EXCEPT !.s = s],
                        !.startingRow = f.y,
                        !.lastTick = IF cs.lastTick = 0 \/ due THEN 1 ELSE cs.lastTick,
                        !.pc = IF cs.lastTick = 0 \/ due THEN "sleep" ELSE "enter"]
  /\ UNCHANGED <<liveVars, solverVars, fx>>

\* the counter resuming from its sleep on the live grid instead of its own
countAfterSleep_SharedGrid ==
  /\ cs.pc = "sleep"
  /\ SolverAsleep
  /\ cs' = [cs EXCEPT !.pc = "enter", !.cells = board.cells]
  /\ UNCHANGED <<liveVars, solverVars, fx>>

\* the timer of the counter's `await sleep(0)` fires
countAfterSleep ==
  /\ cs.pc = "sleep"
  /\ SolverAsleep
  /\ cs' = [cs EXCEPT !.pc = "enter"]
  /\ UNCHANGED <<liveVars, solverVars, fx>>

\* the recursive call of the counter's innermost backtrack has returned `stop`
countReturn ==
  /\ cs.pc = "ret"
  /\ Len(cs.stack) > 0
  /\ LET f == cs.stack[Len(cs.stack)]
         undone == [cs EXCEPT !.cells = unPlace(cs.cells, f.x, f.y, f.s),
                              !.counts[f.s] = cs.counts[f.s] + 1]
     IN IF cs.stop
        THEN cs' = [undone EXCEPT !.stack = SubSeq(cs.stack, 1, Len(cs.stack) - 1),
                                  !.pc = "ret"]
        ELSE cs' = [undone EXCEPT !.stack[Len(cs.stack)] = [f EXCEPT !.s = f.s - 1],
                                  !.pc = "loop"]
  /\ UNCHANGED <<liveVars, solverVars, fx>>

\* backtrack(0) has returned: countSolutionsAsync returns {count, nodes}
countFinish ==
  /\ cs.pc = "ret"
  /\ Len(cs.stack) = 0
  /\ cs' = [cs EXCEPT !.result = [count |-> cs.solutions, nodes |-> cs.nodes],
                      !.pc = "done"]
  /\ UNCHANGED <<liveVars, solverVars, fx>>

CountStep ==
  \/ countEnter
  \/ countLoop
  \/ countAfterSleep
  \/ countReturn
  \/ countFinish

----------------------------------------------------------------------------
(* The searches on their own, from every occupancy of small boards *)

\* the boards and inventories the searches are run on
SearchConfigs ==
  { [size |-> 2, sizes |-> <<1, 1, 1, 1, 2>>],
    [size |-> 3, sizes |-> <<1, 1, 1, 1, 1, 2>>] }

\* the givens of an occupancy: marks[k] is the size of the given whose top-left
\* cell has raster index k (0: none), listed in raster order from cell k on
RECURSIVE givensOf(_, _, _)
givensOf(marks, n, k) ==
  IF k >= n * n THEN <<>>
  ELSE IF marks[k] = 0 THEN givensOf(marks, n, k + 1)
  ELSE <<Item(marks[k], k % n, k \div n)>> \o givensOf(marks, n, k + 1)

\* the game loaded from a puzzle link that is accepted whole
SearchInit ==
  /\ \E cfg \in SearchConfigs :
     \E marks \in [0..(cfg.size * cfg.size - 1) -> {0} \cup SizesOf(cfg.sizes)] :
       LET items == givensOf(marks, cfg.size, 0)
           st    == applyPuzzleFromQuery(
                      [board |-> Board(cfg.size),
                       inventory |-> createInventory(cfg.sizes)], items)
       IN /\ Cardinality({i \in DOMAIN st.inventory : st.inventory[i].placed})
               = Len(items)
          /\ GameInit(cfg.size, cfg.sizes, items)
  /\ SolverIdle
  /\ cs = CountIdle
  /\ fx = NoFx

\* the largest limit the counter is called with
MaxLimit == 3

\* countSolutionsAsync(state, limit, onTick) is called
countCall ==
  /\ Quiescent
  /\ cs.pc = "idle"
  /\ \E limit \in 0..MaxLimit : countBegin(limit)
  /\ UNCHANGED <<liveVars, solverVars, fx>>

\* the transforms a search is started with: the one the Solve handler chooses,
\* and the identity (the search run on the occupancy as it is)
StartTransforms(b) ==
  LET id == makeTransform(b.size, 0, FALSE)
  IN {chooseBestTransform(b),
      [n |-> id.n, rot |-> id.rot, mirror |-> id.mirror, sum |-> keySum(b, id, 0)]}

\* a search is started on the working copy built with one of these transforms
solveCall ==
  /\ Quiescent
  /\ ~solving
  /\ \E t \in StartTransforms(board) : solveStartWith(t)

NextSolve ==
  \/ solveCall
  \/ onSolveCancel
  \/ SolveStep

SpecSolve == SearchInit /\ [][NextSolve]_vars

NextHandle ==
  \/ solveCall
  \/ callCancelHandle
  \/ SolveStep

SpecHandle == SearchInit /\ [][NextHandle]_vars

NextCount ==
  \/ countCall
  \/ CountStep

SpecCount == SearchInit /\ [][NextCount]_vars

----------------------------------------------------------------------------
(* A count running beside the game: Check, Solve and edits interleaved *)

\* Check button: the handler returns while a search started by Solve runs,
\* otherwise it calls countSolutionsAsync(state, 2, onTick)
onCheck ==
  /\ Quiescent
  /\ ~solving
  /\ cs.pc = "idle"
  /\ countBegin(2)
  /\ UNCHANGED <<liveVars, solverVars, fx>>

\* the edits of the live board that need no drag
EditEvent ==
  \/ \E s \in SizesOf(InvSizes) : onInventoryClick(s)
  \/ \E x \in Coords, y \in Coords : onContextMenu(x, y)
  \/ onClear
  \/ onUndo

NextOverlap ==
  \/ EditEvent
  \/ onCheck
  \/ CountStep
  \/ onSolveStart
  \/ onSolveCancel
  \/ SolveStep

SpecOverlap == Init /\ [][NextOverlap]_vars

----------------------------------------------------------------------------
(* The transform helpers on their own: fx holds the inputs and the results *)

\* the largest board the helpers are applied to
MaxN == 4
\* the largest board whose occupancies are enumerated
MaxOccN == 3

\* the board of size n whose non-zero cells are those of the set F of raster
\* indices (every filled cell holds the id 1)
OccBoard(n, F) ==
  [size   |-> n,
   cells  |-> [y \in 0..(n - 1) |-> [x \in 0..(n - 1) |->
                 IF RasterIndex(n, x, y) \in F THEN 1 ELSE 0]],
   filled |-> Cardinality(F)]

TfInit ==
  /\ \/ \E n \in 1..MaxN, rot \in 0..3, mirror \in BOOLEAN,
          x \in 0..(MaxN - 1), y \in 0..(MaxN - 1) :
          /\ x < n /\ y < n
          /\ fx = [NoFx EXCEPT !.op = "point", !.n = n, !.rot = rot,
                               !.mirror = mirror, !.x = x, !.y = y]
     \/ \E n \in 1..MaxOccN : \E F \in SUBSET (0..(n * n - 1)) :
          fx = [NoFx EXCEPT !.op = "board", !.n = n, !.b = OccBoard(n, F)]
     \/ \E n \in 1..MaxN, rot \in 0..3, mirror \in BOOLEAN, s \in 1..MaxN,
          x \in 0..(MaxN - 1), y \in 0..(MaxN - 1) :
          /\ x + s <= n /\ y + s <= n
          /\ fx = [NoFx EXCEPT !.op = "rect", !.n = n, !.rot = rot, !.mirror = mirror,
                               !.x = x, !.y = y, !.s = s]
     \/ \E cfg \in SearchConfigs :
        \E marks \in [0..(cfg.size * cfg.size - 1) -> {0} \cup SizesOf(cfg.sizes)] :
          LET items == givensOf(marks, cfg.size, 0)
              st    == applyPuzzleFromQuery(
                         [board |-> Board(cfg.size),
                          inventory |-> createInventory(cfg.sizes)], items)
          IN /\ Cardinality({i \in DOMAIN st.inventory : st.inventory[i].placed})
                  = Len(items)
             /\ \E rot \in 0..3, mirror \in BOOLEAN :
                  fx = [NoFx EXCEPT !.op = "state", !.n = cfg.size, !.rot = rot,
                                    !.mirror = mirror, !.b = st.board,
                                    !.ps = st.inventory]
  /\ GameInit(BOARD_SIZE, InvSizes, <<>>)
  /\ SolverIdle
  /\ cs = CountIdle

\* makeTransform(n, rot, mirror).map(x, y)
applyMap ==
  /\ fx.op = "point" /\ fx.stage = "in"
  /\ fx' = [fx EXCEPT !.stage = "mapped",
                      !.m = map(makeTransform(fx.n, fx.rot, fx.mirror), fx.x, fx.y)]
  /\ UNCHANGED <<liveVars, solverVars, cs>>

\* makeTransform(n, rot, mirror).inv on the mapped point
applyInv ==
  /\ fx.op = "point" /\ fx.stage = "mapped"
  /\ fx' = [fx EXCEPT !.stage = "back",
                      !.back = inv(makeTransform(fx.n, fx.rot, fx.mirror), fx.m.x, fx.m.y)]
  /\ UNCHANGED <<liveVars, solverVars, cs>>

\* chooseBestTransform(board)
applyChoose ==
  /\ fx.op = "board" /\ fx.stage = "in"
  /\ fx' = [fx EXCEPT !.stage = "chosen", !.best = chooseBestTransform(fx.b)]
  /\ UNCHANGED <<liveVars, solverVars, cs>>

\* mapRectTopLeft(tf, x, y, s)
applyMapRect ==
  /\ fx.op = "rect" /\ fx.stage = "in"
  /\ fx' = [fx EXCEPT !.stage = "mapped",
                      !.m = mapRectTopLeft(makeTransform(fx.n, fx.rot, fx.mirror),
                                           fx.x, fx.y, fx.s)]
  /\ UNCHANGED <<liveVars, solverVars, cs>>

\* invRectTopLeft(tf, x', y', s) on the mapped square
applyInvRect ==
  /\ fx.op = "rect" /\ fx.stage = "mapped"
  /\ fx' = [fx EXCEPT !.stage = "back",
                      !.back = invRectTopLeft(makeTransform(fx.n, fx.rot, fx.mirror),
                                              fx.m.x, fx.m.y, fx.s)]
  /\ UNCHANGED <<liveVars, solverVars, cs>>

\* buildTransformedState(state, tf) on the state [board |-> fx.b, inventory |-> fx.ps]
applyBuild ==
  /\ fx.op = "state" /\ fx.stage = "in"
  /\ fx' = [fx EXCEPT !.stage = "built",
                      !.w = buildTransformedState(
                              fx.b, fx.ps, makeTransform(fx.n, fx.rot, fx.mirror))]
  /\ UNCHANGED <<liveVars, solverVars, cs>>

\* the grid the Solve handler hands to the search for the state [board, inventory]:
\* buildTransformedState(state, chooseBestTransform(state.board)).board.cells
canonicalCells(b, ps) == buildTransformedState(b, ps, chooseBestTransform(b)).board.cells

\* the Solve handler's working grid for the state as entered and for the same
\* state entered in the orientation fx.w (its image under the symmetry)
applyCanon ==
  /\ fx.op = "state" /\ fx.stage = "built"
  /\ fx' = [fx EXCEPT !.stage = "canon",
                      !.canon = canonicalCells(fx.b, fx.ps),
                      !.canonImg = canonicalCells(fx.w.board, fx.w.inventory)]
  /\ UNCHANGED <<liveVars, solverVars, cs>>

NextTf ==
  \/ applyMap
  \/ applyInv
  \/ applyChoose
  \/ applyMapRect
  \/ applyInvRect
  \/ applyBuild
  \/ applyCanon

SpecTf == TfInit /\ [][NextTf]_vars

----------------------------------------------------------------------------
(* The puzzle string parser on its own: fx.str is the string, fx.res the result *)

\* the longest string parsed
MaxStrLen == 6

\* the characters the strings are made of: a size digit, a digit that is no
\* size, a lower-case and an upper-case letter, a character that is no digit,
\* white space, and the Kelvin sign
Chars == {"1", "9", "a", "Z", "-", " ", KelvinSign}

\* the most givens of a puzzle handed to applyPuzzleFromQuery directly
MaxItems == 2

\* the givens handed over: sizes the inventory has and one it has not,
\* corners on the board and one column and row beyond it
PuzzleItems ==
  LET Items == {Item(s, x, y) : s \in SizesOf(InvSizes) \cup {3},
                                x \in 0..BOARD_SIZE, y \in 0..BOARD_SIZE}
  IN UNION {[1..m -> Items] : m \in 0..MaxItems}

ParseInit ==
  /\ \/ \E len \in 0..MaxStrLen : \E str \in [1..len -> Chars] :
          fx = [NoFx EXCEPT !.op = "parse", !.str = str]
     \/ \E items \in PuzzleItems :
          fx = [NoFx EXCEPT !.op = "puzzle", !.res = Parsed(items)]
  /\ GameInit(BOARD_SIZE, InvSizes, <<>>)
  /\ SolverIdle
  /\ cs = CountIdle

\* parsePuzzleString(s)
applyParse ==
  /\ fx.op = "parse" /\ fx.stage = "in"
  /\ fx' = [fx EXCEPT !.stage = "parsed", !.res = parsePuzzleString(fx.str)]
  /\ UNCHANGED <<liveVars, solverVars, cs>>

\* applyPuzzleFromQuery() on the new game, after parsePuzzleString returned
\* fx.res.items
applyPuzzle ==
  /\ \/ fx.op = "puzzle" /\ fx.stage = "in"
     \/ fx.op = "parse" /\ fx.stage = "parsed" /\ fx.res.ok
  /\ LET st == applyPuzzleFromQuery(
                 [board |-> Board(BOARD_SIZE), inventory |-> createInventory(InvSizes)],
                 fx.res.items)
     IN fx' = [fx EXCEPT !.stage = "applied",
                         !.w = [board |-> st.board, inventory |-> st.inventory,
                                cancelSolve |-> FALSE]]
  /\ UNCHANGED <<liveVars, solverVars, cs>>

NextParse ==
  \/ applyParse
  \/ applyPuzzle

SpecParse == ParseInit /\ [][NextParse]_vars

----------------------------------------------------------------------------
(* Properties *)

\* C1: without a cancel request, solveRemainingAsync returns ok: true exactly
\* when the empty cells of the working board can be tiled exactly by unplaced
\* tiles (each used at most once), whatever the occupancy and the size orders.
C1_OkIffExactTiling ==
  (pc = "returned" /\ ~cancelReq) => (out.ok <=> start.tilings > 0)

\* C1 witness: a search without cancel returned ok after backtracking over at
\* least one placement, having placed several tiles.
C1_Witness ==
  /\ pc = "returned" /\ ~cancelReq /\ out.ok
  /\ Len(placements) >= 2
  /\ stats.nodes > Len(placements)

\* C7: countSolutionsAsync returns count = min(T, L), T being the number of
\* distinct exact tilings of the empty cells and L the limit.
C7_CountIsMinOfTilingsAndLimit ==
  cs.pc = "done" => cs.result.count = Min(cs.tilings, cs.limit)

\* C7 witness: a count that was cut by a positive limit below the number of
\* tilings.
C7_Witness ==
  /\ cs.pc = "done"
  /\ cs.limit >= 2 /\ cs.tilings > cs.limit
  /\ cs.result.count = cs.limit

\* C9: for rot in 0..3, either mirror flag and every (x, y) of the n x n board,
\* map(x, y) lies on the board and inv(map(x, y)) = (x, y).
C9_InvUndoesMap ==
  /\ (fx.op = "point" /\ fx.stage \in {"mapped", "back"})
       => (fx.m.x \in 0..(fx.n - 1) /\ fx.m.y \in 0..(fx.n - 1))
  /\ (fx.op = "point" /\ fx.stage = "back") => fx.back = Pt(fx.x, fx.y)

\* C9 witness: a point moved by a mirrored quarter turn has been mapped back.
C9_Witness ==
  /\ fx.op = "point" /\ fx.stage = "back"
  /\ fx.n = 3 /\ fx.rot = 1 /\ fx.mirror
  /\ fx.m # Pt(fx.x, fx.y)
  /\ fx.back = Pt(fx.x, fx.y)

\* the i-th transform of the order "rotations 0..3 outer, mirror false then
\* true inner"
CandidateAt(i) == [rot |-> (i - 1) \div 2, mirror |-> (i - 1) % 2 = 1]

\* the weight x' + y'*N of cell k of board b under transform t, 0 when the cell
\* is empty
Weight(b, t, k) ==
  LET m == map(t, k % b.size, k \div b.size)
  IN IF b.cells[k \div b.size][k % b.size] # 0 THEN m.x + m.y * b.size ELSE 0

\* the sum of the weights of the cells 0..k
RECURSIVE WeightSum(_, _, _)
WeightSum(b, t, k) ==
  IF k < 0 THEN 0 ELSE Weight(b, t, k) + WeightSum(b, t, k - 1)

\* the key of candidate i on board b: sum of x' + y'*N over the mapped filled
\* cells
KeyOf(b, i) ==
  WeightSum(b, makeTransform(b.size, CandidateAt(i).rot, CandidateAt(i).mirror),
            b.size * b.size - 1)

\* the keys of the eight candidates on board b
Keys(b) == [i \in 1..8 |-> KeyOf(b, i)]

\* the first candidate whose key is minimal among keys
FirstMinimal(keys) ==
  CHOOSE i \in 1..8 :
    /\ \A j \in 1..8 : keys[i] <= keys[j]
    /\ \A j \in 1..(i - 1) : keys[j] > keys[i]

\* does `best` name candidate i with key keys[i]
IsCandidate(best, keys, i) ==
  /\ best.rot = CandidateAt(i).rot
  /\ best.mirror = CandidateAt(i).mirror
  /\ best.sum = keys[i]

\* does `best` name the first candidate whose key is minimal among keys
IsFirstMinimal(best, keys) == IsCandidate(best, keys, FirstMinimal(keys))

\* C10: chooseBestTransform returns the transform whose key is minimal, the
\* first such in the enumeration order on ties; the identity for an empty board.
C10_FirstMinimalKey ==
  (fx.op = "board" /\ fx.stage = "chosen") =>
     /\ \A keys \in {Keys(fx.b)} : IsFirstMinimal(fx.best, keys)
     /\ fx.b.filled = 0 => (fx.best.rot = 0 /\ ~fx.best.mirror)

\* is the identity not minimal while two later candidates tie for the minimum
TieBeyondIdentity(keys, i) ==
  /\ i > 1
  /\ keys[1] > keys[i]
  /\ \E j \in (i + 1)..8 : keys[j] = keys[i]

HasTieBeyondIdentity(keys) == TieBeyondIdentity(keys, FirstMinimal(keys))

\* C10 witness: a board on which the identity is not minimal and two later
\* candidates tie for the minimum.
C10_Witness ==
  /\ fx.op = "board" /\ fx.stage = "chosen"
  /\ \E keys \in {Keys(fx.b)} : HasTieBeyondIdentity(keys)

\* the placed pieces of the live inventory
PlacedIds == {i \in DOMAIN inventory : inventory[i].placed}

\* does the square of live piece i cover cell (x, y)
Covers(i, x, y) ==
  InSquare(x, y, inventory[i].x, inventory[i].y, inventory[i].size)

\* what a search must leave alone on the live pieces: x, y and placed
Positions(ps) ==
  [i \in DOMAIN ps |-> [x |-> ps[i].x, y |-> ps[i].y, placed |-> ps[i].placed]]

\* C2: after a successful search that was applied by applySolutionFromWork,
\* with no other operation on the live board since the search started,
\* board.filled = size * size and every cell holds the id of exactly one
\* placed tile whose square covers it.
C2_AppliedSolutionFillsBoard ==
  (pc = "idle" /\ ~solving /\ out.ok /\ ops = start.ops) =>
     /\ board.filled = board.size * board.size
     /\ \A x \in 0..(board.size - 1), y \in 0..(board.size - 1) :
          /\ Cardinality({i \in PlacedIds : Covers(i, x, y)}) = 1
          /\ board.cells[y][x] \in PlacedIds
          /\ Covers(board.cells[y][x], x, y)

\* C3: in every reachable state the squares of the placed tiles are pairwise
\* disjoint.
C3_PlacedTilesDisjoint ==
  \A i, j \in PlacedIds :
    i # j => ~(\E x \in 0..(board.size - 1), y \in 0..(board.size - 1) :
                 Covers(i, x, y) /\ Covers(j, x, y))

\* C4: when a search in which cancel was requested has returned, the live
\* cells, filled, every tile's x, y, placed, fixed and the undo log are what
\* they were when the search started.
C4_CancelLeavesLiveState ==
  (pc = "returned" /\ cancelReq) =>
     /\ board = start.board
     /\ inventory = start.inventory
     /\ undo = start.undo

\* C5: from the start of a search until it returns, no step changes the live
\* board's cells or filled, or any tile's x, y or placed.
C5_LiveBoardFrozenWhileSolving ==
  [][(solving /\ pc # "returned") =>
       (board' = board /\ Positions(inventory') = Positions(inventory))]_vars

\* C6: a search resolves to one of {ok: true}, {ok: false} and
\* {ok: false, reason: 'cancel'}; the reason is 'cancel' exactly when cancel
\* was requested before it resolved, and a cancelled run never reports ok: true.
C6_ThreeOutcomes ==
  out.reason # "pending" =>
     /\ \/ out.ok /\ out.reason = ""
        \/ ~out.ok /\ out.reason = "" /\ out.count = 0
        \/ ~out.ok /\ out.reason = "cancel" /\ out.count = 0
     /\ (out.reason = "cancel") <=> cancelReq
     /\ cancelReq => ~out.ok

\* C6 witness: a search on a board that can be completed returned 'cancel'
\* after it had placed tiles.
C6_Witness ==
  /\ pc = "returned" /\ cancelReq
  /\ out.reason = "cancel" /\ ~out.ok
  /\ start.tilings > 0
  /\ stats.nodes >= 2

\* C8: once cancel has been requested, stats.nodes does not increase again;
\* a backtrack call entered afterwards returns failure before it scans for an
\* empty cell, and a size loop stops before it tries its next candidate.
C8_NoNodesAfterCancel ==
  [][(cancelReq /\ solving) =>
       /\ stats'.nodes <= stats.nodes
       /\ pc = "enter" => (pc' = "ret" /\ ~ret' /\ stack' = stack)
       /\ pc = "loop" => (pc' = "ret" /\ ~ret' /\ placements' = placements)]_vars

\* C8 witness: after a cancel request a call has returned failure to a
\* backtrack that still has placements to take back.
C8_Witness ==
  /\ cancelReq /\ solving
  /\ pc = "ret" /\ ~ret
  /\ Len(stack) >= 2
  /\ stats.nodes >= 2

\* the ids of the pieces named by a sequence of records with field pieceId
IdsOf(recs) == {recs[k].pieceId : k \in DOMAIN recs}

\* the placed flags of the pieces
PlacedFlags(ps) == [i \in DOMAIN ps |-> ps[i].placed]

\* C11: a successful search that places at least one tile appends exactly one
\* batch step to the undo log, whose sub-steps are exactly the tiles the run
\* placed; one undoStep right after it restores the live cells, filled and
\* every tile's placed flag to their values before the run.
C11_OneBatchStepUndoesRun ==
  [][(pc = "returned" /\ out.ok /\ out.count >= 1) =>
       /\ Len(undo') = Len(undo) + 1
       /\ SubSeq(undo', 1, Len(undo)) = undo
       /\ undo'[Len(undo')].batch
       /\ Len(undo'[Len(undo')].steps) = Len(placements)
       /\ IdsOf(undo'[Len(undo')].steps) = IdsOf(placements)
       /\ undoStep([board |-> board', inventory |-> inventory'],
                   undo'[Len(undo')]).board = start.board
       /\ PlacedFlags(undoStep([board |-> board', inventory |-> inventory'],
                               undo'[Len(undo')]).inventory)
            = PlacedFlags(start.inventory)]_vars

\* the cells of grid g (n x n) that hold id, as <<x, y>> pairs
CellsHolding(g, n, id) ==
  {c \in (0..(n - 1)) \X (0..(n - 1)) : g[c[2]][c[1]] = id}

\* the cells of the square of size s anchored at (x, y), as <<x, y>> pairs
SquareAt(x, y, s) == (x..(x + s - 1)) \X (y..(y + s - 1))

\* is w the image of the live board b and pieces ps under transform t: same ids
\* at mapped cells, filled = number of non-zero cells, and every placed piece's
\* square at its transformed anchor is exactly the set of cells holding its id
WorkIsImage(b, ps, t, w) ==
  /\ \A x \in 0..(b.size - 1), y \in 0..(b.size - 1) :
       w.board.cells[map(t, x, y).y][map(t, x, y).x] = b.cells[y][x]
  /\ w.board.filled = Filled(w.board.cells)
  /\ \A i \in DOMAIN w.inventory :
       w.inventory[i].placed =>
         CellsHolding(w.board.cells, b.size, i)
           = SquareAt(w.inventory[i].x, w.inventory[i].y, w.inventory[i].size)

C13_RectRoundTrip ==
  (fx.op = "rect" /\ fx.stage = "back") =>
     /\ fx.back = Pt(fx.x, fx.y)
     /\ {<<inv(makeTransform(fx.n, fx.rot, fx.mirror), c[1], c[2]).x,
           inv(makeTransform(fx.n, fx.rot, fx.mirror), c[1], c[2]).y>> :
           c \in SquareAt(fx.m.x, fx.m.y, fx.s)}
          = SquareAt(fx.back.x, fx.back.y, fx.s)

\* C13 witness: a 2 x 2 square was mapped by a mirrored quarter turn to another
\* anchor and mapped back.
C13_Witness ==
  /\ fx.op = "rect" /\ fx.stage = "back"
  /\ fx.n = 4 /\ fx.s = 2 /\ fx.rot = 1 /\ fx.mirror
  /\ fx.m # Pt(fx.x, fx.y)
  /\ fx.back = Pt(fx.x, fx.y)

\* C14: applying a successful search result leaves every tile that was placed
\* before the search with unchanged x, y, placed and fixed, and the live cells
\* those tiles occupied keep their ids; only tiles that were unplaced at the
\* start of the search and were used by it change.
C14_ApplyLeavesPlacedTiles ==
  [][(pc = "returned" /\ out.ok) =>
       /\ \A i \in DOMAIN start.inventory :
            start.inventory[i].placed =>
              /\ inventory'[i] = inventory[i]
              /\ \A c \in SquareAt(start.inventory[i].x, start.inventory[i].y,
                                   start.inventory[i].size) :
                   board'.cells[c[2]][c[1]] = board.cells[c[2]][c[1]]
       /\ \A i \in DOMAIN inventory :
            inventory'[i] # inventory[i] =>
              (~start.inventory[i].placed /\ i \in IdsOf(placements))]_vars

\* has the working board of the current search no empty cell
NoEmptyCell == findNextEmpty(work.board.cells, work.board.size, 0).none

\* the search made no placement: nodes = 0, no tile of the working copy has
\* changed since it was built, and the finalization found no step to push
\* (count = 0)
NothingPlaced ==
  /\ out.count = 0 /\ stats.nodes = 0 /\ placements = <<>>
  /\ work.inventory = buildTransformedState(start.board, start.inventory, tf).inventory

\* C15: when the board has no empty cell at search start, solveRemainingAsync
\* returns ok: true having made zero placements (stats.nodes = 0, count = 0);
\* no tile's state changes and no undo step is appended.
C15_FullBoardSucceedsAtOnce ==
  (pc = "returned" /\ NoEmptyCell) => (out.ok /\ NothingPlaced)

\* C15 as amended: the same when cancel is not requested; when cancel is
\* requested during the initial yield the search returns {ok: false, reason:
\* 'cancel'}, again with zero placements and no change.
C15_FullBoardSucceedsUnlessCancelled ==
  (pc = "returned" /\ NoEmptyCell) =>
     /\ NothingPlaced
     /\ ~cancelReq => out.ok
     /\ cancelReq => (~out.ok /\ out.reason = "cancel")

\* C15 witness: a search started on a full 3 x 3 board has returned ok without
\* a cancel request.
C15_Witness ==
  /\ pc = "returned" /\ ~cancelReq
  /\ NoEmptyCell
  /\ out.ok /\ out.count = 0
  /\ start.board.size = 3 /\ start.board.filled = 9

\* C16: in every reachable state of the live board, board.filled equals the
\* number of non-zero cells.
C16_FilledCountsCells == board.filled = Filled(board.cells)

\* C17: in every reachable state, for every tile: if placed, the set of board
\* cells holding its id is exactly its square [x, x+size) x [y, y+size); if
\* not placed, no board cell holds its id.
C17_TileOwnsItsSquare ==
  \A i \in DOMAIN inventory :
    CellsHolding(board.cells, board.size, i)
      = IF inventory[i].placed
        THEN SquareAt(inventory[i].x, inventory[i].y, inventory[i].size)
        ELSE {}

\* the ids of the tiles whose fixed flag is set
Givens == {i \in DOMAIN inventory : inventory[i].fixed}

\* ids recorded in any step of the undo log
UndoIds == UNION {IdsOf(undo[k].steps) : k \in DOMAIN undo}

\* ids sitting in the pools of the running search
PoolIds ==
  UNION {{available[s][k] : k \in DOMAIN available[s]} : s \in DOMAIN available}

\* C18: while a tile's fixed flag is true, no step (drag, right-click removal,
\* Clear, inventory click, Undo, solver run and its apply) changes its x, y or
\* placed; a given is placed, is in no undo step, is in no pool of the search
\* and is in no placement of the search.
C18_GivensStayPut ==
  [][ /\ \A i \in Givens :
           /\ inventory[i].placed
           /\ i \notin UndoIds
           /\ i \notin PoolIds
           /\ i \notin IdsOf(placements)
      /\ \A i \in Givens :
           inventory'[i].fixed =>
             /\ inventory'[i].x = inventory[i].x
             /\ inventory'[i].y = inventory[i].y
             /\ inventory'[i].placed = inventory[i].placed ]_vars

\* a given survived two recorded edits and a search that ran to its end
C18_Witness ==
  /\ Givens # {}
  /\ Len(undo) >= 2
  /\ pc = "idle"
  /\ out.reason # "pending"
  /\ \A i \in Givens : inventory[i].placed


\* C19: within one run of solveRemainingAsync, any two consecutive onTick
\* calls, the initial report included, are at least SOLVER_TICK_MS apart.
C19_ReportsAnIntervalApart == tickGap # "short"

\* a count is between its call and its return
CountRunning == cs.pc \notin {"idle", "done"}

\* the grid, the pools, the placements and the working copy of the search
\* started by Solve
SolverData == <<work, cells, available, placements, stats>>

\* C20: a count and a search started by Solve that overlap, or a count that
\* runs while the live board is edited, do not touch each other's data: a step
\* of the count leaves the live game and the data of the other search alone, a
\* step that changes the live game or the other search leaves the count alone,
\* and each result is the one fixed by the board and inventory at the start of
\* its search (the count: min(tilings, limit) of the board it was called on;
\* the search without cancel: ok exactly when its working copy had a tiling).
C20_OverlappingSearchesIsolated ==
  [][ /\ (CountRunning /\ cs' # cs) => UNCHANGED <<liveVars, solverVars>>
      /\ (CountRunning /\ <<board, inventory, SolverData>>' # <<board, inventory, SolverData>>)
           => cs' = cs
      /\ cs'.pc = "done" => cs'.result.count = Min(cs'.tilings, cs'.limit)
      /\ (pc' = "returned" /\ ~cancelReq') => (out'.ok <=> start'.tilings > 0) ]_vars

\* C20 witness: a count returned the count of the board it was called on
\* although the live board was edited during the count and has no tiling any
\* more, while a search started by Solve during the count is still running
C20_Witness ==
  /\ cs.pc = "done"
  /\ cs.result.count = 1
  /\ cs.board # board
  /\ Cardinality(ExactTilings(board.cells, board.size, countsOf(inventory))) = 0
  /\ pc = "sleepTick"
  /\ stats.nodes >= 1

\* C21: the cancel handle is idempotent and safe after the search: calling
\* it twice leaves the flag as one call does; once the search has returned a
\* call leaves the flag, and so the result and the live game, as they are; and
\* a search returns 'cancel' only if the handle was called during that search.
C21_CancelHandleIdempotentAndSafe ==
  /\ invokeHandle(invokeHandle(cancelled)) = invokeHandle(cancelled)
  /\ pc \in {"returned", "idle"} => invokeHandle(cancelled) = cancelled
  /\ pc = "returned" => ((out.reason = "cancel") <=> cancelReq)

\* C21 witness: a cancelled search is over, its handle is still installed in
\* the live state and can be called
C21_Witness ==
  /\ pc = "idle"
  /\ cancelSolve /\ ~work.cancelSolve
  /\ out.reason = "cancel"
  /\ ~cancelled

\* C22: countSolutionsAsync changes neither the live board (cells, filled)
\* nor any field of any inventory tile, and when it returns, at the limit or
\* after exhausting the search, its private grid and its per-size counts are
\* what they were at the start of the search.
C22_CountLeavesStateAndRestoresCopy ==
  [][ /\ board' = board
      /\ inventory' = inventory
      /\ cs'.pc = "done" =>
           /\ cs'.cells = cs'.board.cells
           /\ cs'.counts = countsOf(inventory')
           /\ cs'.board = board' ]_vars

\* C22 witness: a count that placed several nodes and stopped at its limit
\* has returned
C22_Witness ==
  /\ cs.pc = "done"
  /\ cs.limit >= 1
  /\ cs.result.count = cs.limit
  /\ cs.nodes >= 2
  /\ cs.cells = board.cells

\* the non-zero cells of a grid
Occupied(g) == {c \in (DOMAIN g) \X (DOMAIN g) : g[c[2]][c[1]] # 0}

\* C23: for any occupancy B and any of the 8 symmetries g, the grid the search
\* is given for g(B) has the same occupancy as the grid it is given for B.
C23_CanonicalGridIgnoresOrientation ==
  (fx.op = "state" /\ fx.stage = "canon") =>
     Occupied(fx.canon) = Occupied(fx.canonImg)

\* the base-36 digits: 0..9 and the letters a..z in either case
Base36Digits ==
  {Digits[i] : i \in DOMAIN Digits} \cup {LowerCase[i] : i \in DOMAIN LowerCase}
    \cup {UpperCase[i] : i \in DOMAIN UpperCase}

\* the value of a base-36 digit
Base36Value(ch) ==
  IF indexOf(Digits, ch) >= 0 THEN indexOf(Digits, ch)
  ELSE IF indexOf(LowerCase, ch) >= 0 THEN 10 + indexOf(LowerCase, ch)
  ELSE 10 + indexOf(UpperCase, ch)

\* the 3-character groups of a string whose length is a multiple of 3
Groups(str) == 0..((Len(str) \div 3) - 1)

\* a group with a first character that is no digit 1..8, or a second or third
\* character that is no base-36 digit
BadGroup(str, g) ==
  \/ str[3 * g + 1] \notin {"1", "2", "3", "4", "5", "6", "7", "8"}
  \/ str[3 * g + 2] \notin Base36Digits
  \/ str[3 * g + 3] \notin Base36Digits

Malformed(str) ==
  \/ Len(str) % 3 # 0
  \/ \E g \in Groups(str) : BadGroup(str, g)

\* C24: parsePuzzleString fails exactly when the trimmed string's length is no
\* multiple of 3 (with the message 'length must be multiple of 3'), or a
\* group's first character is no digit 1..8, or a group's second or third
\* character is no base-36 digit; otherwise it returns one {size, x, y} record
\* per group, in order.
C24_ParseFailsIffMalformed ==
  (fx.op = "parse" /\ fx.stage = "parsed") =>
     \A str \in {trim(fx.str)} :
        /\ fx.res.ok <=> ~Malformed(str)
        /\ Len(str) % 3 # 0 => fx.res.message = "length must be multiple of 3"
        /\ fx.res.ok =>
             /\ Len(fx.res.items) = Len(str) \div 3
             /\ \A g \in Groups(str) :
                  fx.res.items[g + 1] =
                    Item(Base36Value(str[3 * g + 1]), Base36Value(str[3 * g + 2]),
                         Base36Value(str[3 * g + 3]))

\* C25: when parsePuzzleString rejects a string for an invalid size character
\* or an invalid x or y character, the position in the message is the index of
\* the offending character in the (trimmed) string.
C25_ErrorPositionIsOffendingChar ==
  (fx.op = "parse" /\ fx.stage = "parsed" /\ ~fx.res.ok
     /\ fx.res.message \in {"bad size", "bad coord"}) =>
     \A str \in {trim(fx.str)} :
        /\ fx.res.at \in 0..(Len(str) - 1)
        /\ fx.res.message = "bad size" =>
             /\ fx.res.at % 3 = 0
             /\ ~isSizeChar(str[fx.res.at + 1])
        /\ fx.res.message = "bad coord" =>
             /\ fx.res.at % 3 # 0
             /\ str[fx.res.at + 1] \notin Base36Digits

\* given i of a puzzle reaches beyond the n x n board
OutOfBounds(items, i, n) ==
  items[i].x + items[i].size > n \/ items[i].y + items[i].size > n

\* given i shares a cell with an earlier given
OverlapsEarlier(items, i) ==
  \E j \in 1..(i - 1) :
     SquareAt(items[i].x, items[i].y, items[i].size)
       \cap SquareAt(items[j].x, items[j].y, items[j].size) # {}

\* a size is asked for more often than the inventory has tiles of it
TooMany(items, sizes) ==
  \E i \in DOMAIN items :
     CountSize(items, items[i].size) > Cardinality({k \in DOMAIN sizes : sizes[k] = items[i].size})

\* C26: when applyPuzzleFromQuery rejects a puzzle (a size asked for too often,
\* a given out of bounds, a given overlapping an earlier given), the board
\* has no non-zero cell, filled = 0, and no tile is placed or fixed.
C26_RejectedPuzzleLeavesNothing ==
  (fx.stage = "applied"
     /\ \/ TooMany(fx.res.items, InvSizes)
        \/ \E i \in DOMAIN fx.res.items :
              OutOfBounds(fx.res.items, i, BOARD_SIZE) \/ OverlapsEarlier(fx.res.items, i)) =>
     /\ fx.w.board.cells = Board(BOARD_SIZE).cells
     /\ fx.w.board.filled = 0
     /\ \A k \in DOMAIN fx.w.inventory :
          ~fx.w.inventory[k].placed /\ ~fx.w.inventory[k].fixed

\* C26 witness: a puzzle whose first given fits and whose second given
\* overlaps it has been rejected
C26_Witness ==
  /\ fx.op = "puzzle" /\ fx.stage = "applied"
  /\ Len(fx.res.items) = 2
  /\ ~TooMany(fx.res.items, InvSizes)
  /\ ~OutOfBounds(fx.res.items, 1, BOARD_SIZE)
  /\ ~OutOfBounds(fx.res.items, 2, BOARD_SIZE)
  /\ OverlapsEarlier(fx.res.items, 2)
  /\ fx.w.board.filled = 0

\* every cell of rows 0..r-1 of the n x n grid g is non-zero
RowsPacked(g, n, r) == \A y \in 0..(r - 1), x \in 0..(n - 1) : g[y][x] # 0

\* C27: at every call backtrack(depth, startingRow) of the search and every
\* call backtrack(startingRow) of the counter, the rows before startingRow of
\* the private grid are full, so findNextEmpty(startingRow) returns the cell a
\* scan from row 0 returns.
C27_RowsBeforeStartAreFull ==
  /\ pc \in {"enter", "sleepTick"} =>
       /\ RowsPacked(cells, work.board.size, call.startingRow)
       /\ findNextEmpty(cells, work.board.size, call.startingRow)
            = findNextEmpty(cells, work.board.size, 0)
  /\ cs.pc \in {"enter", "sleep"} =>
       /\ RowsPacked(cs.cells, cs.board.size, cs.startingRow)
       /\ findNextEmpty(cs.cells, cs.board.size, cs.startingRow)
            = findNextEmpty(cs.cells, cs.board.size, 0)

\* C27 witness: the counter is about to call backtrack from a later row with
\* an empty cell left, while the search started by Solve waits to do the same
C27_Witness ==
  /\ cs.pc = "enter" /\ cs.startingRow >= 1
  /\ ~findNextEmpty(cs.cells, cs.board.size, 0).none
  /\ pc = "sleepTick" /\ call.startingRow >= 1
  /\ ~findNextEmpty(cells, work.board.size, 0).none

\* C28: every tile the search provisionally places has its top-left corner at
\* the row-major first empty cell of the private grid at that moment, lies
\* within the board and covers only cells that were empty just before.
C28_PlacementAtFirstEmptyOnEmptyCells ==
  [][ (pc = "loop" /\ Len(placements') = Len(placements) + 1) =>
        \A pl \in {placements'[Len(placements')]} :
        \A first \in {findNextEmpty(cells, work.board.size, 0)} :
           /\ ~first.none /\ pl.x = first.x /\ pl.y = first.y
           /\ pl.x >= 0 /\ pl.y >= 0
           /\ pl.x + pl.size <= work.board.size
           /\ pl.y + pl.size <= work.board.size
           /\ \A c \in SquareAt(pl.x, pl.y, pl.size) : cells[c[2]][c[1]] = 0
           /\ CellsHolding(cells', work.board.size, pl.pieceId)
                = SquareAt(pl.x, pl.y, pl.size) ]_vars

\* C28 witness: the search has placed a 2x2 tile below and beside earlier
\* tiles, after backtracking
C28_Witness ==
  /\ Len(placements) >= 2
  /\ placements[Len(placements)].size = 2
  /\ stats.nodes > Len(placements)
  /\ work.board.filled > 0

\* the grid g with the placements pls[1..k] written on it
RECURSIVE GridWith(_, _, _)
GridWith(g, pls, k) ==
  IF k = 0 THEN g
  ELSE doPlace(GridWith(g, pls, k - 1), pls[k].x, pls[k].y, pls[k].size, pls[k].pieceId)

\* the ids of the placements pls[1..k] of size s, latest first
RECURSIVE TakenFrom(_, _, _)
TakenFrom(pls, s, k) ==
  IF k = 0 THEN <<>>
  ELSE (IF pls[k].size = s THEN <<pls[k].pieceId>> ELSE <<>>) \o TakenFrom(pls, s, k - 1)

\* the private grid and the pools are the ones of the start of the search with
\* exactly the active placements written, and their tiles popped, on top
StateFollowsPlacements(g, av, pls) ==
  /\ g = GridWith(work.board.cells, pls, Len(pls))
  /\ \A s \in 1..MAX_SIZE :
       av[s] \o TakenFrom(pls, s, Len(pls)) = pools(work.inventory)[s]

SearchRunning == pc \in {"sleep0", "enter", "loop", "sleepTick", "ret"}

\* C29: whenever the recursive call made for a candidate returns failure, the
\* private grid, the active placements and every pool (contents and order) are
\* again what they were just before that candidate was placed, before the next
\* candidate is tried: grid and pools are at all times the function of the
\* active placements given above, and the failure return drops exactly the
\* candidate's placement and goes on to the next candidate or returns.
C29_FailureRestoresGridPlacementsPools ==
  [][ /\ SearchRunning => StateFollowsPlacements(cells, available, placements)
      /\ (pc = "ret" /\ Len(stack) > 0 /\ ~ret) =>
           /\ placements' = SubSeq(placements, 1, Len(placements) - 1)
           /\ placements[Len(placements)].pieceId = stack[Len(stack)].piece
           /\ StateFollowsPlacements(cells', available', placements')
           /\ pc' \in {"loop", "ret"}
           /\ stats' = stats ]_vars

\* C29 witness: inside a nested call, a candidate has failed and been undone,
\* and the loop stands before its next candidate
C29_Witness ==
  /\ pc = "loop"
  /\ Len(stack) >= 2
  /\ stack[Len(stack)].i >= 2 /\ stack[Len(stack)].piece = 0
  /\ Len(placements) = Len(stack) - 1
  /\ stats.nodes > Len(placements)

\* the sizes with at least one unplaced tile at the start of the search
StartSizes == {s \in 1..MAX_SIZE : pools(work.inventory)[s] # <<>>}

\* is the sequence o a permutation of the set S
IsPermutationOf(o, S) ==
  /\ Len(o) = Cardinality(S)
  /\ {o[i] : i \in DOMAIN o} = S

\* C30: the per-depth size orders are fixed before the first recursive call
\* and never modified during the search; each is a permutation of exactly the
\* sizes with an unplaced tile at the start; every visit to depth d iterates
\* the order of depth d; and an order exists for every depth at which some
\* pool is non-empty.
C30_SizeOrdersFixedPermutations ==
  [][ /\ (SearchRunning /\ SearchRunning') => sizeOrders' = sizeOrders
      /\ SearchRunning =>
           /\ IsPermutationOf(sizeOrders.base, StartSizes)
           /\ \A d \in DOMAIN sizeOrders.orders :
                IsPermutationOf(sizeOrders.orders[d], StartSizes)
      /\ (pc = "loop" /\ \E s \in 1..MAX_SIZE : available[s] # <<>>) =>
           /\ stack[Len(stack)].depth \in DOMAIN sizeOrders.orders
           /\ orderAt(stack[Len(stack)].depth)
                = sizeOrders.orders[stack[Len(stack)].depth] ]_vars

\* C30 witness: the loop at depth 1 is visited again after a backtrack, with
\* two sizes in play and different orders at depths 0 and 1
C30_Witness ==
  /\ pc = "loop"
  /\ stack[Len(stack)].depth = 1
  /\ Cardinality(StartSizes) = 2
  /\ sizeOrders.orders[0] # sizeOrders.orders[1]
  /\ stats.nodes > Len(placements) + 1
  /\ \E s \in 1..MAX_SIZE : available[s] # <<>>

\* C31: once the counter has counted `limit` solutions it makes no further
\* placement (nodes stays constant, no further solution is counted), and every
\* pending level of the recursion removes its square and restores its size
\* count before it returns.
C31_NoPlacementAfterLimit ==
  [][ (CountRunning /\ cs.solutions >= cs.limit) =>
        /\ cs'.nodes = cs.nodes
        /\ cs'.solutions = cs.solutions
        /\ cs'.pc \in {"ret", "done"}
        /\ Len(cs'.stack) <= Len(cs.stack)
        /\ Len(cs'.stack) < Len(cs.stack) =>
             \A f \in {cs.stack[Len(cs.stack)]} :
                /\ Len(cs'.stack) = Len(cs.stack) - 1
                /\ \A c \in SquareAt(f.x, f.y, f.s) :
                     cs.cells[c[2]][c[1]] # 0 /\ cs'.cells[c[2]][c[1]] = 0
                /\ cs'.counts[f.s] = cs.counts[f.s] + 1
        /\ cs'.pc = "done" =>
             cs'.cells = cs'.board.cells /\ cs'.counts = countsOf(inventory) ]_vars

\* C31 witness: the counter has reached a positive limit below the number of
\* tilings and unwinds with two levels still pending
C31_Witness ==
  /\ cs.pc = "ret" /\ cs.stop
  /\ cs.limit >= 1 /\ cs.solutions = cs.limit
  /\ cs.tilings > cs.limit
  /\ Len(cs.stack) >= 2

\* the search started by Solve is at one of its `await sleep(0)`
AtYield == pc \in {"sleep0", "sleepTick"}

\* C32: UI event handlers (a cancel request included) run during a search
\* only at its yields, every yield immediately follows a progress report (the
\* initial one or a cadence one), and between two yields the placements and
\* undos of the search run with no handler in between: a step that changes
\* the live game or requests a cancel while the search is between its start
\* and its return happens at a yield and leaves the search where it is; a
\* step of the search leaves the live game alone; a step into a yield is the
\* start of the search (initial report) or a placement that reports.
C32_HandlersOnlyAtYields ==
  [][ /\ (SearchRunning /\ (liveVars' # liveVars \/ cancelReq' # cancelReq)) =>
           /\ AtYield
           /\ pc' = pc
           /\ <<cells, available, placements, stats, stack, call, sizeOrders>>'
                = <<cells, available, placements, stats, stack, call, sizeOrders>>
      /\ (SearchRunning /\ SearchRunning' /\ pc' # pc) => liveVars' = liveVars
      /\ (pc' = "sleep0" /\ pc # "sleep0") =>
           pc = "idle" /\ stats'.nodes = 0 /\ placements' = <<>>
      /\ (pc' = "sleepTick" /\ pc # "sleepTick") =>
           /\ pc = "loop"
           /\ lastTick' = 1 /\ tickGap' # "none"
           /\ stats'.nodes = stats.nodes + 1 ]_vars

\* C32 witness: at a cadence yield with a tile placed by the search, a handler
\* has edited the live board and another has requested a cancel
C32_Witness ==
  /\ pc = "sleepTick"
  /\ Len(placements) >= 1
  /\ cancelReq
  /\ board # start.board

----------------------------------------------------------------------------
(* One recorded operation followed by one undoStep *)

\* what an undo has to restore: the grid, the fill count, every tile's placed
\* flag and the position of every placed tile
LiveView(b, ps) ==
  [cells  |-> b.cells,
   filled |-> b.filled,
   placed |-> [i \in DOMAIN ps |-> ps[i].placed],
   at     |-> [i \in DOMAIN ps |-> IF ps[i].placed THEN Pt(ps[i].x, ps[i].y)
                                                   ELSE Pt(0, 0)]]

\* the live game is at rest: no drag and no search in progress
AtRest == drag.active = 0 /\ ~solving /\ pc = "idle"

\* the live game at rest is remembered before the operation; the events of
\* the operation are counted from here (ops only bounds the length of a run)
markBefore ==
  /\ fx = NoFx
  /\ AtRest
  /\ fx' = [NoFx EXCEPT !.op = "before", !.b = board, !.ps = inventory,
                        !.n = 0, !.s = Len(undo)]
  /\ ops' = 0
  /\ UNCHANGED <<board, inventory, undo, solving, cancelSolve, drag, preview,
                 inventoryDragActive>>
  /\ UNCHANGED <<solverVars, cs>>

\* the operations that push an undo step: a drag (pointerdown, moves,
\* pointerup), a right-click removal, an inventory click, Clear
RecordedOp ==
  \/ /\ ops = fx.n
     /\ \/ \E x \in Coords, y \in Coords : onCanvasDown(x, y)
        \/ \E s \in SizesOf(InvSizes), c \in PreviewCells : onInventoryDrag(s, c[1], c[2])
        \/ \E x \in Coords, y \in Coords : onContextMenu(x, y)
        \/ \E s \in SizesOf(InvSizes) : onInventoryClick(s)
        \/ onClear
  \/ \E c \in PreviewCells : onMove(c[1], c[2])
  \/ onUp

\* state.undoStep() called on the live game once the operation is over
\* (app.js 134-151: an empty log returns at once)
callUndoStep ==
  /\ fx.op = "before"
  /\ drag.active = 0
  /\ IF Len(undo) = 0
     THEN UNCHANGED <<board, inventory, undo>>
     ELSE LET r == undoStep([board |-> board, inventory |-> inventory],
                            undo[Len(undo)])
          IN /\ board' = r.board
             /\ inventory' = r.inventory
             /\ undo' = SubSeq(undo, 1, Len(undo) - 1)
  /\ fx' = [fx EXCEPT !.op = "undone", !.x = Len(undo)]
  /\ UNCHANGED <<solving, cancelSolve, drag, preview, inventoryDragActive, ops>>
  /\ UNCHANGED <<solverVars, cs>>

NextUndo ==
  \/ fx = NoFx /\ Next
  \/ markBefore
  \/ fx.op = "before" /\ Len(undo) = fx.s /\ RecordedOp
  \/ callUndoStep

SpecUndo == Init /\ [][NextUndo]_vars

\* C33: from a reachable live state with no drag and no search in progress,
\* one recorded operation (drag placement, drag move, drag-out removal,
\* right-click removal, inventory click, Clear) followed by one undoStep
\* restores the board cells, board.filled, every placed flag and the x, y of
\* every placed tile; undoStep on an empty undo log changes nothing.
C33_OperationThenUndoRestores ==
  fx.op = "undone" =>
    /\ fx.x = fx.s + 1 => LiveView(board, inventory) = LiveView(fx.b, fx.ps)
    /\ (fx.x = 0 /\ ops = fx.n) =>
         board = fx.b /\ inventory = fx.ps /\ undo = <<>>

\* grid, fill count and tiles agree: the cells holding a tile's id are its
\* square when it is placed and none when it is not, and filled counts the
\* non-zero cells
SoundGame(b, ps) ==
  /\ b.filled = Filled(b.cells)
  /\ \A i \in DOMAIN ps :
       CellsHolding(b.cells, b.size, i)
         = IF ps[i].placed THEN SquareAt(ps[i].x, ps[i].y, ps[i].size) ELSE {}

\* C33 restricted to operations that start from a game whose grid, fill count
\* and tiles agree
C33_RestoresFromSoundGame ==
  (fx.op = "undone" /\ SoundGame(fx.b, fx.ps)) =>
    /\ fx.x = fx.s + 1 => LiveView(board, inventory) = LiveView(fx.b, fx.ps)
    /\ (fx.x = 0 /\ ops = fx.n) =>
         board = fx.b /\ inventory = fx.ps /\ undo = <<>>

----------------------------------------------------------------------------
(* The searches under a scheduler that resumes them after each yield *)

\* one search at a time: Solve (start or cancel), the counter, and their steps
NextLive ==
  \/ cs.pc = "idle" /\ onSolveStart
  \/ onSolveCancel
  \/ SolveStep
  \/ pc = "idle" /\ countCall
  \/ CountStep

\* every timer of sleep(0) fires and every continuation runs: a step of a
\* search that can be taken is eventually taken
SpecLive ==
  /\ Init
  /\ [][NextLive]_vars
  /\ WF_vars(SolveStep)
  /\ WF_vars(CountStep)

\* C34: every exact-completion search and every solution count terminates,
\* provided the scheduler resumes the search after each yield; after cancel
\* is requested the search eventually returns and state.solving eventually
\* becomes false.
C34_SearchesTerminate ==
  /\ SearchRunning ~> (pc = "returned")
  /\ CountRunning ~> (cs.pc = "done")
  /\ (solving /\ cancelReq) ~> (pc = "returned")
  /\ (solving /\ cancelReq) ~> ~solving

\* C34 witness: a search in which cancel was requested has returned mid-way
\* and the handler has reset solving; a count started afterwards has finished
C34_Witness ==
  /\ pc = "idle" /\ ~solving
  /\ cancelReq /\ out.reason = "cancel"
  /\ cs.pc = "done" /\ cs.result.nodes >= 2

----------------------------------------------------------------------------
(* The Solve handler with a search that throws *)

\* an exception is thrown while the search runs (in backtrack or in the
\* onTick callback): solveRemainingAsync's finally clears its handle, the
\* awaited promise rejects, the handler's catch and finally run; `out` keeps
\* its initial value (app.js 854) and nothing is applied
solveThrows ==
  /\ pc \in {"enter", "loop", "ret"}
  /\ work' = [work EXCEPT !.cancelSolve = FALSE]
  /\ out' = [ok |-> FALSE, reason |-> "cancel", count |-> 0]
  /\ solving' = FALSE
  /\ pc' = "idle"
  /\ cells' = <<>>
  /\ available' = NoPools
  /\ sizeOrders' = NoOrders
  /\ placements' = <<>>
  /\ stats' = NoStats
  /\ lastTick' = 0
  /\ tickGap' = "none"
  /\ cancelled' = FALSE
  /\ stack' = <<>>
  /\ call' = NoCall
  /\ ret' = FALSE
  /\ UNCHANGED <<board, inventory, undo, cancelSolve, drag, preview,
                 inventoryDragActive, ops>>
  /\ UNCHANGED <<cancelReq, tf, start>>
  /\ UNCHANGED <<cs, fx>>

NextThrow ==
  \/ Next
  \/ solveThrows

SpecThrow == Init /\ [][NextThrow]_vars

\* C35: at most one exact-completion search is in progress at any time: a
\* Solve click while state.solving is true only requests cancellation and
\* starts no new search, and state.solving is true exactly from the starting
\* click until that search has returned and the handler has resumed (on
\* success, no solution, cancel and a thrown error alike).
C35_OneSearchAtATime ==
  /\ [](solving <=> pc # "idle")
  /\ [][ /\ (~solving /\ solving') => (pc = "idle" /\ pc' = "sleep0")
         /\ (solving /\ ~solving') =>
              (pc \in {"returned", "enter", "loop", "ret"} /\ pc' = "idle")
         /\ solving =>
              /\ start' = start /\ tf' = tf
              /\ work'.board = work.board
              /\ pc' = "sleep0" => pc = "sleep0"
         /\ (solving /\ cancelReq' # cancelReq) =>
              /\ cancelReq'
              /\ UNCHANGED <<liveVars, work, cells, available, sizeOrders,
                             placements, stats, pc, stack, call, out>> ]_vars

\* C35 witness: the search is at a yield with a tile placed and a Solve click
\* has requested its cancel; state.solving is still true and the search has
\* not returned
C35_Witness ==
  /\ solving /\ pc = "sleepTick"
  /\ cancelReq /\ cancelled
  /\ Len(placements) >= 1
  /\ ~out.ok /\ out.reason = "pending"

\* the number of active placements of size s
ActiveOfSize(s) == Cardinality({k \in DOMAIN placements : placements[k].size = s})

\* the number of tiles of size s that were unplaced when the search started
UnplacedAtStart(s) ==
  Cardinality({i \in DOMAIN start.inventory :
                 ~start.inventory[i].placed /\ start.inventory[i].size = s})

\* C36: throughout an exact-completion search, for each size the number of
\* tiles in its pool plus the number of active placements of that size equals
\* the number of tiles of that size unplaced at search start; no tile id
\* occurs twice in the active placement list; and at entry to
\* backtrack(depth, ...) the active placement list has exactly depth entries.
C36_PoolsPlusPlacements ==
  SearchRunning =>
    /\ \A s \in 1..MAX_SIZE :
         Len(available[s]) + ActiveOfSize(s) = UnplacedAtStart(s)
    /\ \A j, k \in DOMAIN placements :
         j # k => placements[j].pieceId # placements[k].pieceId
    /\ pc = "enter" => Len(placements) = call.depth

\* C36 witness: backtrack is entered at depth 3 after a failed candidate was
\* taken back, with tiles of two sizes among the active placements
C36_Witness ==
  /\ pc = "enter" /\ call.depth = 3
  /\ stats.nodes > Len(placements)
  /\ ActiveOfSize(1) >= 1 /\ ActiveOfSize(2) >= 1
  /\ Len(available[1]) >= 1

----------------------------------------------------------------------------
(* The counter and then the search on the same board and inventory *)

\* countSolutionsAsync(state, limit, onTick) is called with a limit >= 1
countCallPositive ==
  /\ pc = "idle" /\ start = NoStart
  /\ cs.pc = "idle"
  /\ \E limit \in 1..MaxLimit : countBegin(limit)
  /\ UNCHANGED <<liveVars, solverVars, fx>>

\* the count has returned; one search is then run on the state it counted
NextBoth ==
  \/ countCallPositive
  \/ CountStep
  \/ cs.pc = "done" /\ start = NoStart /\ solveCall
  \/ onSolveCancel
  \/ afterInitialSleep
  \/ afterTickSleep
  \/ btEnter
  \/ btLoop
  \/ btReturn
  \/ solveReturn

SpecBoth == SearchInit /\ [][NextBoth]_vars

\* C37: for every board and inventory, an uncancelled solveRemainingAsync run
\* (under any transform and any size permutations) returns ok:true if and
\* only if countSolutionsAsync with limit >= 1 on the same board and inventory
\* returns count >= 1.
C37_SolveOkIffCountPositive ==
  (pc = "returned" /\ out.reason # "cancel") =>
    /\ cs.pc = "done" /\ cs.limit >= 1
    /\ board = cs.board /\ board = start.board /\ inventory = start.inventory
    /\ out.ok <=> (cs.result.count >= 1)

\* C37 witness: an uncancelled search started with a transform that is not
\* the identity has returned ok after taking a candidate back, and the count
\* run before it on the same board and inventory found a solution
C37_Witness ==
  /\ pc = "returned" /\ out.ok /\ ~cancelReq
  /\ tf.rot # 0
  /\ stats.nodes > Len(placements) /\ Len(placements) >= 2
  /\ cs.pc = "done" /\ cs.result.count >= 1

\* an uncancelled search has returned failure after trying candidates, and
\* the count run before it found no solution
C37_NoSolutionCase ==
  /\ pc = "returned" /\ ~out.ok /\ ~cancelReq
  /\ stats.nodes >= 2
  /\ cs.pc = "done" /\ cs.result.count = 0 /\ cs.result.nodes >= 2

----------------------------------------------------------------------------
(* toPuzzleString and parsePuzzleString back to back *)

\* the sizes and coordinates of the items encoded: both ends of the ranges the
\* format has, the last digit and the first letter, and one value beyond each
EncSizes  == {1, 5, 8, 9}
EncCoords == {0, 9, 10, 35, 36}

EncodeItems ==
  LET Items == {Item(s, x, y) : s \in EncSizes, x \in EncCoords, y \in EncCoords}
  IN UNION {[1..m -> Items] : m \in 0..MaxItems}

EncodeInit ==
  /\ \E items \in EncodeItems : fx = [NoFx EXCEPT !.op = "encode", !.ps = items]
  /\ GameInit(BOARD_SIZE, InvSizes, <<>>)
  /\ SolverIdle
  /\ cs = CountIdle

\* toPuzzleString(items)
applyEncode ==
  /\ fx.op = "encode" /\ fx.stage = "in"
  /\ fx' = [fx EXCEPT !.stage = "encoded", !.str = toPuzzleString(fx.ps)]
  /\ UNCHANGED <<liveVars, solverVars, cs>>

\* parsePuzzleString(toPuzzleString(items))
applyDecode ==
  /\ fx.op = "encode" /\ fx.stage = "encoded"
  /\ fx' = [fx EXCEPT !.stage = "parsed", !.res = parsePuzzleString(fx.str)]
  /\ UNCHANGED <<liveVars, solverVars, cs>>

NextEncode ==
  \/ applyEncode
  \/ applyDecode

SpecEncode == EncodeInit /\ [][NextEncode]_vars

\* every item has its size in 1..8 and its x, y in 0..35
InFormat(items) ==
  \A i \in DOMAIN items :
    /\ items[i].size \in 1..MAX_SIZE
    /\ items[i].x \in 0..35 /\ items[i].y \in 0..35

\* C38: for every list of items with size in 1..8 and x, y in 0..35,
\* parsePuzzleString(toPuzzleString(items)) returns the same list of
\* {size, x, y} records in the same order, and the encoded string has length
\* 3 * (number of items).
C38_PuzzleStringRoundTrip ==
  (fx.op = "encode" /\ InFormat(fx.ps)) =>
    /\ fx.stage \in {"encoded", "parsed"} => Len(fx.str) = 3 * Len(fx.ps)
    /\ fx.stage = "parsed" => (fx.res.ok /\ fx.res.items = fx.ps)

\* C38 witness: two different items, one with the largest size and a letter
\* coordinate at the end of the alphabet, have been encoded and parsed back
C38_Witness ==
  /\ fx.op = "encode" /\ fx.stage = "parsed"
  /\ InFormat(fx.ps) /\ Len(fx.ps) = 2
  /\ fx.ps[1] = Item(8, 35, 10) /\ fx.ps[2] = Item(1, 0, 9)
  /\ fx.res.ok /\ Len(fx.res.items) = 2

====
